---- MODULE Spec2Model ----
(***************************************************************************)
(* MedIntelli Clinica V3 (src/src/App.tsx): the single-page application as *)
(* a state machine.  One App component shows one section at a time; a      *)
(* section keeps local React state, sends queries to the hosted database   *)
(* and (the chat) one POST to the chat-completion endpoint.                *)
(*                                                                         *)
(* A handler runs to its next `await` in one step.  A handler waiting at   *)
(* an await is a record of the bag `tasks`, with one result per request it *)
(* waits for.  The database serves a request in one step (it applies the   *)
(* statement and fixes the result); the response arrives in a later step,  *)
(* in which the handler's continuation runs to its next await or its end.  *)
(* Text typed by the user is a sequence of one-character strings, ids are  *)
(* positive numbers in order of insertion (they stand for the uuid and for *)
(* created_at, which defaults to now()); 0 is the empty id ("" or null).   *)
(***************************************************************************)
EXTENDS Integers, Sequences, FiniteSets, Bags, TLC

VARIABLES
    visits,              \* the sections the user of this behaviour visits
    storage,             \* localStorage["medintelli_clinica_session"]
    session,             \* App: useState<UserSession | null>
    section,             \* App: useState<Section>
    loc,                 \* the useState values of the section being shown
    patients,            \* table patients
    appointments,        \* table appointments
    waitlist,            \* table waitlist
    holidays,            \* table holidays
    whatsapp_templates,  \* table whatsapp_templates
    public_validations,  \* table public_validations
    seq,                 \* rows inserted so far, per table (the next id)
    apiKey,              \* import.meta.env.VITE_OPENAI_API_KEY
    tasks,               \* requests in flight, a bag
    alone,               \* no other user works on the database meanwhile
    others,              \* statements other users have run so far
    ev                   \* what the last step did (observation only)

vars == <<visits, alone, apiKey, storage, session, section, loc, patients,
          appointments, waitlist, holidays, whatsapp_templates,
          public_validations, seq, tasks, others, ev>>

db == <<patients, appointments, waitlist, holidays, whatsapp_templates,
        public_validations, seq, others>>

shell == <<visits, alone, apiKey, storage, session, section>>

-----------------------------------------------------------------------------
(* Bounds of the model *)

\* rows ever inserted into each table
MaxPatients == 2
MaxAppointments == 1
MaxWaitlist == 2
MaxHolidays == 1
MaxTemplates == 1
\* handler invocations with a request in flight at one time, of a user alone
MaxTasks == 2
\* the same while other users write to the database
MaxRacing == 1
\* statements of other users in one behaviour
MaxOther == 1
\* handler invocations a section may leave in flight when the user leaves it
MaxStale == 0
\* messages of one chat conversation
MaxMsgs == 4

\* the message rows of one load of the inbox, and their times
MaxMsgRows == 3
MaxMsgTime == 2

-----------------------------------------------------------------------------
(* Text *)

\* what the user may type into a text field
TextInputs == {<<>>, <<" ">>, <<"a">>}

\* what another user of the application writes
OtherNames == {<<"b">>}

\* what the user may type into the validation code field
CodeInputs == {<<>>, <<" ">>, <<"a">>, <<" ", "a", " ">>, <<"b">>}

\* what the user may type into the chat input
ChatInputs == {<<>>, <<" ">>, <<"q">>}

RECURSIVE TrimStart(_)
TrimStart(s) ==
    IF s # <<>> /\ Head(s) = " " THEN TrimStart(Tail(s)) ELSE s

RECURSIVE TrimEnd(_)
TrimEnd(s) ==
    IF s # <<>> /\ s[Len(s)] = " " THEN TrimEnd(SubSeq(s, 1, Len(s) - 1)) ELSE s

\* a submit that forgets .trim()
NoTrim(s) == s

\* String.prototype.trim
Trim(s) == TrimEnd(TrimStart(s))

\* !s for a string s
Falsy(s) == s = <<>>

CharRank(c) == CASE c = " " -> 0 [] c = "a" -> 1 [] c = "b" -> 2 [] OTHER -> 3

RECURSIVE TextLE(_, _)
\* the database's ascending order of two texts
TextLE(s, t) ==
    IF s = <<>> THEN TRUE
    ELSE IF t = <<>> THEN FALSE
    ELSE IF Head(s) # Head(t) THEN CharRank(Head(s)) < CharRank(Head(t))
    ELSE TextLE(Tail(s), Tail(t))

\* the sequences that list every row of the set S once, in an order LE allows
\* (rows with equal keys come in any order)
Ordered(S, LE(_, _)) ==
    LET n == Cardinality(S)
    IN  {s \in [1..n -> S] :
            /\ \A i, j \in 1..n : i # j => s[i] # s[j]
            /\ \A i \in 1..n : \A j \in 1..n : i < j => LE(s[i], s[j])}

Range(s) == {s[i] : i \in DOMAIN s}

-----------------------------------------------------------------------------
(* The database, from the SQL of the file's header comment *)

NoId == 0

Statuses == {"agendado", "confirmado", "cancelado", "concluido"}

\* the values of <input type="date"> and <input type="time">; "" is no value
Dates == {"d1"}

Times == {"t1"}

\* new Date().toISOString().slice(0, 10), the day a query is sent
Days == {"d1", "d2"}

\* !s for the value of a select or of a date or time input
Empty(s) == s = ""

\* the rows that may be inserted into each table
MaxIds ==
    [patients |-> MaxPatients, appointments |-> MaxAppointments,
     waitlist |-> MaxWaitlist, holidays |-> MaxHolidays,
     whatsapp_templates |-> MaxTemplates]

MatchId(table, id) == {r \in table : r.id = id}

\* insert into patients: name text not null
InsertPatientRow(name) == [id |-> seq.patients + 1, name |-> name]

\* update patients set name = ... where id = ...
UpdatePatientRows(id, name) ==
    {IF r.id = id THEN [r EXCEPT !.name = name] ELSE r : r \in patients}

\* delete from patients where id = ...
DeletePatientRows(id) == {r \in patients : r.id # id}

\* appointments.patient_id references patients(id) on delete cascade
CascadeAppointments(id) == {a \in appointments : a.patient_id # id}

\* a table without the foreign key
NoForeignKey(patient_id) == TRUE

\* the foreign key of appointments.patient_id
ForeignKeyOk(patient_id) == \E p \in patients : p.id = patient_id

InsertAppointmentRow(patient_id, date, status) ==
    [id |-> seq.appointments + 1, patient_id |-> patient_id,
     date |-> date, status |-> status]

UpdateAppointmentRows(id, status) ==
    {IF r.id = id THEN [r EXCEPT !.status = status] ELSE r : r \in appointments}

Bump(table) == [seq EXCEPT ![table] = @ + 1]

-----------------------------------------------------------------------------
(* Requests in flight and the record of the last step *)

\* a request not yet served, and a served one
Pending == [done |-> FALSE, error |-> FALSE, data |-> <<>>]

Result(error, data) == [done |-> TRUE, error |-> error, data |-> data]

\* a handler waiting for one request
Call(op) == [op |-> op, live |-> TRUE, res |-> [q |-> Pending]]

Unserved(t) == {q \in DOMAIN t.res : ~t.res[q].done}

Served(t) == Unserved(t) = {}

Add(t) == tasks (+) SetToBag({t})

Take(t) == tasks (-) SetToBag({t})

Replace(t, u) == (tasks (-) SetToBag({t})) (+) SetToBag({u})

Room == BagCardinality(tasks) < (IF alone THEN MaxTasks ELSE MaxRacing)

\* an insert into the table may still be sent: the rows inserted and the
\* inserts in flight stay within MaxIds
Fresh(table, insertOps) ==
    LET waiting == {t \in BagToSet(tasks) : t.op \in insertOps /\ ~t.res.q.done}
        n == BagCardinality([t \in waiting |-> CopiesIn(t, tasks)])
    IN  seq[table] + n < MaxIds[table]

\* the last step: the handler that ran or (db) the statement of it that the
\* database served, whether the response was an error, the alert() shown, the
\* rows the statement touched, and whether it wrote over a row that was no
\* longer as the list of its sender shows it
Ev(op) ==
    [op |-> op, db |-> FALSE, fail |-> FALSE, alert |-> "", rows |-> 0,
     stale |-> FALSE]

\* the items of the Sidebar (lines 203-216)
Items ==
    {"dashboard", "pacientes", "agenda", "waitlist", "holidays", "whatsapp",
     "validation", "chat", "medico", "config"}

\* a sidebar that keeps Configuracoes for the admin
OfferedByRole(sess) ==
    IF sess = <<>> THEN {}
    ELSE IF sess.role = "admin" THEN Items ELSE Items \ {"config"}

\* the buttons the Sidebar shows to a session: items.map(...) with no filter
\* on item.roles (lines 244-262), and no Sidebar without a session (line 1838)
Offered(sess) == IF sess = <<>> THEN {} ELSE Items

\* the condition of the render of App (line 1852)
ShownTo(sess, sec) == IF sess = <<>> \/ sec = "login" THEN "login" ELSE sec

\* a render that looks at the section only
ShownIgnoringSession == section

\* the component whose state is loc: the render of App (lines 1852-1867)
Shown == ShownTo(session, section)

\* setX(...) of a handler of the component that sent t: React drops it when
\* that component has unmounted
SetState(t, new) == loc' = IF t.live THEN new ELSE loc

\* the database answers request q of t
Serve(t, q, r) ==
    /\ BagIn(t, tasks)
    /\ q \in Unserved(t)
    /\ tasks' = Replace(t, [t EXCEPT !.res[q] =
                    IF t.live THEN r ELSE Result(r.error, <<>>)])

-----------------------------------------------------------------------------
(* App: session, section and the section shown (lines 1814-1871) *)

Roles == {"admin", "medico", "recepcao"}

NoSession == <<>>

NoItem == <<>>

\* JSON.stringify(session)
Stringify(s) == <<"{", s.role, s.name, "}">>

WellFormed(raw) == Len(raw) = 4 /\ raw[1] = "{" /\ raw[4] = "}"

\* JSON.parse(raw), where raw is well formed
Parse(raw) == [role |-> raw[2], name |-> raw[3]]

Garbage == <<"{">>

Sessions == [role : Roles, name : {<<"e">>}]

\* the sets of sections one user visits through the sidebar
Scenarios ==
    {{"login", "dashboard", "config"}}
    \cup {{s, "config"} : s \in {"pacientes", "agenda", "waitlist", "holidays",
                                 "whatsapp", "validation", "chat", "medico"}}

\* record: null of ValidationSection
NoRecord == <<>>

\* the first message of the chat (lines 1562-1568), the system prompt
\* CLINIC_KB (lines 187-195) and the answer used when the reply has no
\* content (line 1615), as texts
Greeting == <<"G">>

CLINIC_KB == <<"K">>

NoAnswer == <<"N">>

\* the useState initial values of each section component
LocalInit(s) ==
    CASE s = "login" ->
           [user |-> [email |-> <<>>, password |-> <<>>, role |-> "admin"],
            error |-> ""]
      [] s = "dashboard" ->
           [counts |-> [patients |-> 0, appointments |-> 0, waitlist |-> 0,
                        todayAppointments |-> 0]]
      [] s = "pacientes" ->
           [patients |-> <<>>, loading |-> TRUE, editingId |-> NoId,
            form |-> [name |-> <<>>]]
      [] s = "agenda" ->
           [appointments |-> <<>>, patients |-> <<>>, holidays |-> <<>>,
            loading |-> TRUE,
            form |-> [patient_id |-> NoId, date |-> "", time |-> ""]]
      [] s = "waitlist" ->
           [items |-> <<>>, loading |-> TRUE,
            form |-> [patient_name |-> <<>>, priority |-> "1"]]
      [] s = "holidays" ->
           [holidays |-> <<>>, form |-> [date |-> "", is_blocked |-> TRUE]]
      [] s = "whatsapp" ->
           [templates |-> <<>>, logs |-> <<>>,
            form |-> [name |-> <<>>, content |-> <<>>]]
      [] s = "validation" ->
           [code |-> <<>>, record |-> NoRecord, loading |-> FALSE, error |-> ""]
      [] s = "chat" ->
           [messages |-> <<[role |-> "assistant", content |-> Greeting]>>,
            input |-> <<>>, loading |-> FALSE, error |-> ""]
      [] s = "medico" -> [appointments |-> <<>>, loading |-> TRUE]
      [] OTHER -> [none |-> TRUE]

\* AgendaSection.loadData waiting at its Promise.all (lines 745-752)
LoadDataCall ==
    [op |-> "loadData", live |-> TRUE,
     res |-> [pats |-> Pending, apps |-> Pending, hols |-> Pending]]

\* WhatsappSection.load waiting at its Promise.all (lines 1305-1314)
WhatsLoadCall ==
    [op |-> "Whatsapp.load", live |-> TRUE,
     res |-> [t |-> Pending, l |-> Pending]]

\* the requests the useEffect(..., []) of each section sends when it mounts
MountTasks(s) ==
    CASE s = "dashboard" ->
           {[op |-> "Dashboard.load", live |-> TRUE,
             res |-> [pats |-> Pending, apps |-> Pending, wait |-> Pending,
                      today |-> Pending]]}
      [] s = "pacientes" -> {Call("loadPatients")}
      [] s = "agenda" -> {LoadDataCall}
      [] s = "waitlist" -> {Call("loadList")}
      [] s = "holidays" -> {Call("Holidays.load")}
      [] s = "whatsapp" -> {WhatsLoadCall}
      [] s = "medico" -> {Call("Medico.load")}
      [] OTHER -> {}

\* a component that unmounts leaves its requests in flight; what they set later
\* is set on a component that is no longer there, so their data is not kept
Unmounted(b) ==
    BagOfAll(LAMBDA t :
                [t EXCEPT !.live = FALSE,
                          !.res = [q \in DOMAIN t.res |->
                                     IF t.res[q].done
                                     THEN Result(t.res[q].error, <<>>)
                                     ELSE Pending]],
             b)

\* the sections that read each table
Reads(table) ==
    CASE table = "patients" -> {"pacientes", "agenda", "dashboard"}
      [] table = "appointments" -> {"pacientes", "agenda", "dashboard", "medico"}
      [] table = "holidays" -> {"agenda", "holidays"}
      [] table = "waitlist" -> {"waitlist", "dashboard"}

Tables == {"patients", "appointments", "holidays", "waitlist"}

\* another user may change the table under this behaviour
Observed(table) == ~alone /\ visits \cap Reads(table) # {}

\* the tables public_validations may be: code text unique not null
\* (lines 71-79); no handler of the application writes it
ValidationTables ==
    {T \in SUBSET [code : {<<"a">>, <<"b">>}, valid : BOOLEAN] :
        \A r1, r2 \in T : r1.code = r2.code => r1 = r2}

\* rows the clinic has when the behaviour starts
SeedPatient == [id |-> 1, name |-> <<"b">>]

SeedAppointment ==
    [id |-> 1, patient_id |-> 1, date |-> "d1", status |-> "agendado"]

\* useEffect of App (lines 1818-1829): restore the session or show the login
AppBoot(raw) ==
    /\ storage = raw
    /\ IF raw # NoItem
       THEN /\ session = (IF WellFormed(raw) THEN Parse(raw) ELSE NoSession)
            /\ section = "dashboard"
       ELSE /\ session = NoSession
            /\ section = "login"

Init ==
    /\ visits \in Scenarios
    \* the agenda, with its three lists, is explored among other users only
    /\ alone \in (IF "agenda" \in visits THEN {FALSE}
                  ELSE IF \E table \in Tables : visits \cap Reads(table) # {}
                  THEN BOOLEAN ELSE {TRUE})
    /\ patients = (IF visits \cap {"agenda", "medico", "dashboard"} # {}
                   THEN {SeedPatient} ELSE {})
    /\ appointments = (IF visits \cap {"medico", "dashboard"} # {}
                       THEN {SeedAppointment} ELSE {})
    /\ waitlist = {} /\ holidays = {}
    /\ whatsapp_templates = {}
    /\ public_validations \in (IF "validation" \in visits
                               THEN ValidationTables ELSE {{}})
    /\ apiKey \in (IF "chat" \in visits THEN {"", "sk"} ELSE {"sk"})
    /\ seq = [patients |-> Cardinality(patients),
              appointments |-> Cardinality(appointments), waitlist |-> 0,
              holidays |-> 0, whatsapp_templates |-> 0]
    /\ others = 0
    /\ ev = Ev("App")
    /\ IF "login" \in visits
       THEN /\ \E raw \in {NoItem, Garbage} \cup {Stringify(s) : s \in Sessions} :
                 AppBoot(raw)
            /\ loc = LocalInit(Shown)
            /\ tasks = SetToBag(MountTasks(Shown))
       ELSE \* a returning user with the stored session, on Configuracoes, the
            \* dashboard's counts answered
            /\ \E s \in {x \in Sessions : x.role = "admin"} :
                 /\ storage = Stringify(s)
                 /\ session = s
            /\ section = "config"
            /\ loc = LocalInit("config")
            /\ tasks = EmptyBag

\* Sidebar: onChange = setSection (lines 244-278; "login" is Sair / Trocar usuario)
Navigate(s) ==
    /\ s \in Offered(session) \cup {"login"}
    /\ session # NoSession
    /\ s \in visits
    /\ s # section
    /\ BagCardinality(tasks) <= MaxStale
    /\ section' = s
    /\ loc' = LocalInit(s)
    /\ tasks' = Unmounted(tasks) (+) SetToBag(MountTasks(s))
    /\ ev' = Ev("Sidebar.onChange")
    /\ UNCHANGED <<visits, alone, apiKey, storage, session, db>>

\* LoginSection: the inputs (lines 333-356)
LoginChange(f, v) ==
    /\ Shown = "login"
    /\ loc.user[f] # v
    /\ loc' = [loc EXCEPT !.user[f] = v]
    /\ ev' = Ev("Login.onChange")
    /\ UNCHANGED <<shell, db, tasks>>

\* LoginSection.handleSubmit (lines 304-317) and App.handleLogin (1831-1834)
LoginHandleSubmit ==
    /\ Shown = "login"
    /\ IF Falsy(loc.user.email) \/ Falsy(loc.user.password)
       THEN /\ loc' = [loc EXCEPT !.error = "Informe e-mail e senha (ficticios)."]
            /\ ev' = Ev("Login.handleSubmit")
            /\ UNCHANGED <<shell, db, tasks>>
       ELSE LET s == [role |-> loc.user.role, name |-> loc.user.email]
            IN  /\ BagCardinality(tasks) <= MaxStale
                /\ storage' = Stringify(s)
                /\ session' = s
                /\ section' = "dashboard"
                /\ loc' = LocalInit("dashboard")
                /\ tasks' = Unmounted(tasks) (+) SetToBag(MountTasks("dashboard"))
                /\ ev' = Ev("Login.handleSubmit")
                /\ UNCHANGED <<visits, alone, apiKey, db>>

\* a start that reads the session under another key and finds nothing
RestoredNothing(raw) == [session |-> NoSession, section |-> "login"]

\* what the useEffect of App (lines 1818-1829) makes of the stored item
Restored(raw) ==
    [session |-> IF raw # NoItem /\ WellFormed(raw) THEN Parse(raw)
                 ELSE NoSession,
     section |-> IF raw # NoItem THEN "dashboard" ELSE "login"]

\* the page is loaded again: App starts from its useState values and its
\* useEffect (lines 1815-1829); the handlers that were waiting are gone
Restart ==
    /\ Restored(storage).section \in visits
    /\ BagCardinality(tasks) <= MaxStale
    /\ session' = Restored(storage).session
    /\ section' = Restored(storage).section
    /\ loc' = LocalInit(Shown')
    /\ tasks' = SetToBag(MountTasks(Shown'))
    /\ ev' = Ev("App.restart")
    /\ UNCHANGED <<visits, alone, apiKey, storage, db>>

\* select("id", {count: "exact", head: true}) of DashboardSection.load
\* (lines 396-410)
CountOf(q, today) ==
    CASE q = "pats" -> Cardinality(patients)
      [] q = "apps" -> Cardinality(appointments)
      [] q = "wait" -> Cardinality(waitlist)
      [] q = "today" -> Cardinality({a \in appointments : a.date = today})

\* the database answers one of the four counts; a failed one has count null
DashboardServe(t, q, fail) ==
    /\ t.op = "Dashboard.load"
    /\ \E today \in Days :
         Serve(t, q, Result(fail, IF fail THEN 0 ELSE CountOf(q, today)))
    /\ ev' = [Ev(t.op) EXCEPT !.db = TRUE, !.fail = fail]
    /\ UNCHANGED <<shell, db, loc>>

\* DashboardSection.load (lines 392-424) after Promise.all: setCounts with
\* count || 0; the error of a result is not read
DashboardLoaded(t) ==
    /\ BagIn(t, tasks) /\ t.op = "Dashboard.load" /\ Served(t)
    /\ tasks' = Take(t)
    /\ SetState(t, [loc EXCEPT !.counts =
                      [patients |-> t.res.pats.data,
                       appointments |-> t.res.apps.data,
                       waitlist |-> t.res.wait.data,
                       todayAppointments |-> t.res.today.data]])
    /\ ev' = [Ev(t.op) EXCEPT !.fail = \E q \in DOMAIN t.res : t.res[q].error]
    /\ UNCHANGED <<shell, db>>

NextShell ==
    \/ \E s \in Items \cup {"login"} : Navigate(s)
    \/ Restart
    \/ \E v \in {<<>>, <<"e">>, <<"f">>} : LoginChange("email", v)
    \/ \E v \in {<<>>, <<"p">>} : LoginChange("password", v)
    \/ \E r \in Roles : LoginChange("role", r)
    \/ LoginHandleSubmit
    \/ \E t \in BagToSet(tasks) : \E q \in DOMAIN t.res : \E fail \in BOOLEAN :
         DashboardServe(t, q, fail)
    \/ \E t \in BagToSet(tasks) : DashboardLoaded(t)

-----------------------------------------------------------------------------
(* PacientesSection (lines 472-727) *)

EmptyPatientForm == [name |-> <<>>]

PacShown == Shown = "pacientes"

\* the rows and their buttons are rendered when loading is false (lines 680-724)
PacRows == IF loc.loading THEN {} ELSE DOMAIN loc.patients

\* handleChange (lines 505-510)
PacHandleChange(v) ==
    /\ PacShown
    /\ loc.form.name # v
    /\ loc' = [loc EXCEPT !.form.name = v]
    /\ ev' = Ev("Pacientes.handleChange")
    /\ UNCHANGED <<shell, db, tasks>>

\* the request handleSubmit sends (lines 516-540)
PacSubmitTask ==
    IF loc.editingId # NoId
    THEN [op |-> "Pacientes.update", live |-> TRUE, res |-> [q |-> Pending],
          id |-> loc.editingId, name |-> loc.form.name]
    ELSE [op |-> "Pacientes.insert", live |-> TRUE, res |-> [q |-> Pending],
          id |-> NoId, name |-> loc.form.name]

\* handleSubmit up to its await (lines 512-540)
PacHandleSubmit ==
    /\ PacShown
    /\ IF Falsy(Trim(loc.form.name))
       THEN /\ ev' = Ev("Pacientes.handleSubmit")
            /\ UNCHANGED <<shell, db, tasks, loc>>
       ELSE /\ Room
            /\ loc.editingId = NoId => Fresh("patients", {"Pacientes.insert"})
            /\ tasks' = Add(PacSubmitTask)
            /\ ev' = Ev("Pacientes.handleSubmit")
            /\ UNCHANGED <<shell, db, loc>>

\* handleSubmit after its await (lines 530-551): alert on error, then reset
\* the form, leave the edit mode and loadPatients()
PacSubmitted(t) ==
    /\ BagIn(t, tasks) /\ t.op \in {"Pacientes.update", "Pacientes.insert"}
    /\ Served(t)
    /\ tasks' = Replace(t, [Call("loadPatients") EXCEPT !.live = t.live])
    /\ SetState(t, [loc EXCEPT !.form = EmptyPatientForm, !.editingId = NoId,
                               !.loading = TRUE])
    /\ ev' = [Ev(t.op) EXCEPT
                !.fail = t.res.q.error,
                !.alert = IF ~t.res.q.error THEN ""
                          ELSE IF t.op = "Pacientes.update"
                               THEN "Erro ao atualizar paciente."
                               ELSE "Erro ao salvar paciente."]
    /\ UNCHANGED <<shell, db>>

\* loadPatients that calls itself again when its query fails
PacLoadedRetry(t) ==
    /\ BagIn(t, tasks) /\ t.op = "loadPatients" /\ Served(t)
    /\ tasks' = IF t.res.q.error
                THEN Replace(t, [Call("loadPatients") EXCEPT !.live = t.live])
                ELSE Take(t)
    /\ SetState(t, IF t.res.q.error THEN loc
                   ELSE [loc EXCEPT !.patients = t.res.q.data,
                                    !.loading = FALSE])
    /\ ev' = [Ev(t.op) EXCEPT
                !.fail = t.res.q.error,
                !.alert = IF t.res.q.error THEN "Erro ao carregar pacientes."
                          ELSE ""]
    /\ UNCHANGED <<shell, db>>

\* loadPatients after its await (lines 492-498)
PacLoaded(t) ==
    /\ BagIn(t, tasks) /\ t.op = "loadPatients" /\ Served(t)
    /\ tasks' = Take(t)
    /\ SetState(t, IF t.res.q.error THEN [loc EXCEPT !.loading = FALSE]
                   ELSE [loc EXCEPT !.patients = t.res.q.data,
                                    !.loading = FALSE])
    /\ ev' = [Ev(t.op) EXCEPT
                !.fail = t.res.q.error,
                !.alert = IF t.res.q.error THEN "Erro ao carregar pacientes."
                          ELSE ""]
    /\ UNCHANGED <<shell, db>>

\* handleEdit (lines 554-564)
PacHandleEdit(i) ==
    /\ PacShown
    /\ i \in PacRows
    /\ loc' = [loc EXCEPT !.editingId = loc.patients[i].id,
                          !.form = [name |-> loc.patients[i].name]]
    /\ loc' # loc
    /\ ev' = Ev("Pacientes.handleEdit")
    /\ UNCHANGED <<shell, db, tasks>>

\* Cancelar edicao (lines 651-675)
PacCancelEdit ==
    /\ PacShown
    /\ loc.editingId # NoId
    /\ loc' = [loc EXCEPT !.editingId = NoId, !.form = EmptyPatientForm]
    /\ ev' = Ev("Pacientes.cancelEdit")
    /\ UNCHANGED <<shell, db, tasks>>

\* handleDelete up to its await (lines 566-568)
PacHandleDelete(i, confirm) ==
    /\ PacShown
    /\ i \in PacRows
    /\ IF ~confirm
       THEN /\ ev' = Ev("Pacientes.handleDelete")
            /\ UNCHANGED <<shell, db, tasks, loc>>
       ELSE /\ Room
            /\ tasks' = Add([op |-> "Pacientes.delete", live |-> TRUE,
                             res |-> [q |-> Pending],
                             id |-> loc.patients[i].id, name |-> <<>>])
            /\ ev' = Ev("Pacientes.handleDelete")
            /\ UNCHANGED <<shell, db, loc>>

\* handleDelete after its await (lines 569-574)
PacDeleted(t) ==
    /\ BagIn(t, tasks) /\ t.op = "Pacientes.delete" /\ Served(t)
    /\ tasks' = Take(t)
    /\ SetState(t, IF t.res.q.error THEN loc
                   ELSE [loc EXCEPT !.patients =
                           SelectSeq(@, LAMBDA p : p.id # t.id)])
    /\ ev' = [Ev(t.op) EXCEPT
                !.fail = t.res.q.error,
                !.alert = IF t.res.q.error THEN "Erro ao excluir paciente."
                          ELSE ""]
    /\ UNCHANGED <<shell, db>>

-----------------------------------------------------------------------------
(* The database serving the statements on patients *)

DbEv(t, fail, rows) ==
    [Ev(t.op) EXCEPT !.db = TRUE, !.fail = fail, !.rows = rows]

\* the row of the table with this id is not as the list shows it
StaleRow(list, table, id) ==
    \E r \in MatchId(table, id) :
        \E i \in DOMAIN list : list[i].id = id /\ list[i] # r

\* from("patients").select("*").order("created_at", {ascending: false})
\* (lines 487-490)
SelectPatients(t, fail) ==
    /\ t.op = "loadPatients"
    /\ \E data \in Ordered(patients, LAMBDA a, b : a.id >= b.id) :
         Serve(t, "q", Result(fail, IF fail THEN <<>> ELSE data))
    /\ ev' = DbEv(t, fail, 0)
    /\ UNCHANGED <<shell, db, loc>>

\* from("patients").insert(payload) (line 535)
InsertPatient(t, fail) ==
    /\ t.op = "Pacientes.insert"
    /\ Serve(t, "q", Result(fail, <<>>))
    /\ IF fail THEN UNCHANGED <<patients, seq>>
       ELSE /\ patients' = patients \cup {InsertPatientRow(t.name)}
            /\ seq' = Bump("patients")
    /\ ev' = DbEv(t, fail, IF fail THEN 0 ELSE 1)
    /\ UNCHANGED <<shell, loc, appointments, waitlist, holidays,
                   whatsapp_templates, public_validations, others>>

\* an update that writes only a row still as its sender's list shows it
UpdatePatientIfUnchanged(t, fail) ==
    /\ t.op = "Pacientes.update"
    /\ Serve(t, "q", Result(fail, <<>>))
    /\ LET skip == fail \/ (t.live /\ StaleRow(loc.patients, patients, t.id))
       IN  /\ patients' = IF skip THEN patients
                          ELSE UpdatePatientRows(t.id, t.name)
           /\ ev' = DbEv(t, fail,
                         IF skip THEN 0 ELSE Cardinality(MatchId(patients, t.id)))
    /\ UNCHANGED <<shell, loc, appointments, waitlist, holidays,
                   whatsapp_templates, public_validations, seq, others>>

\* from("patients").update(payload).eq("id", editingId) (lines 526-529)
UpdatePatient(t, fail) ==
    /\ t.op = "Pacientes.update"
    /\ Serve(t, "q", Result(fail, <<>>))
    /\ patients' = IF fail THEN patients ELSE UpdatePatientRows(t.id, t.name)
    /\ ev' = [DbEv(t, fail,
                    IF fail THEN 0 ELSE Cardinality(MatchId(patients, t.id)))
              EXCEPT !.stale = ~fail /\ t.live
                               /\ StaleRow(loc.patients, patients, t.id)]
    /\ UNCHANGED <<shell, loc, appointments, waitlist, holidays,
                   whatsapp_templates, public_validations, seq, others>>

\* from("patients").delete().eq("id", id) (line 568), with the cascade
DeletePatient(t, fail) ==
    /\ t.op = "Pacientes.delete"
    /\ Serve(t, "q", Result(fail, <<>>))
    /\ patients' = IF fail THEN patients ELSE DeletePatientRows(t.id)
    /\ appointments' = IF fail THEN appointments ELSE CascadeAppointments(t.id)
    /\ ev' = DbEv(t, fail,
                  IF fail THEN 0 ELSE Cardinality(MatchId(patients, t.id)))
    /\ UNCHANGED <<shell, loc, waitlist, holidays, whatsapp_templates,
                   public_validations, seq, others>>

NextPacientes ==
    \/ \E v \in TextInputs : PacHandleChange(v)
    \/ PacHandleSubmit
    \/ \E i \in 1..MaxPatients : PacHandleEdit(i)
    \/ PacCancelEdit
    \/ \E i \in 1..MaxPatients : \E confirm \in BOOLEAN : PacHandleDelete(i, confirm)
    \/ \E t \in BagToSet(tasks) :
         \/ PacSubmitted(t)
         \/ PacLoaded(t)
         \/ PacDeleted(t)
         \/ \E fail \in BOOLEAN :
              \/ SelectPatients(t, fail)
              \/ InsertPatient(t, fail)
              \/ UpdatePatient(t, fail)
              \/ DeletePatient(t, fail)

-----------------------------------------------------------------------------
(* AgendaSection (lines 730-953) *)

AgShown == Shown = "agenda"

EmptyAgendaForm == [patient_id |-> NoId, date |-> "", time |-> ""]

\* the rows and their buttons are rendered when loading is false (lines 897-947)
AgRows == IF loc.loading THEN {} ELSE DOMAIN loc.appointments

\* handleChange (lines 771-776); the select offers the patients loaded
AgHandleChange(f, v) ==
    /\ AgShown
    /\ f = "patient_id" => v \in {NoId} \cup {p.id : p \in Range(loc.patients)}
    /\ loc.form[f] # v
    /\ loc' = [loc EXCEPT !.form[f] = v]
    /\ ev' = Ev("Agenda.handleChange")
    /\ UNCHANGED <<shell, db, tasks>>

\* a fourth button that reopens the appointment
StatusButtonsWithReopen == Statuses

\* the buttons of a row: Confirmar, Cancelar, Concluido (lines 936-944)
StatusButtons == {"confirmado", "cancelado", "concluido"}

\* isHoliday (lines 778-780)
isHoliday(dateStr) ==
    \E i \in DOMAIN loc.holidays :
        loc.holidays[i].date = dateStr /\ loc.holidays[i].is_blocked

\* an insert with a status of its own
AgSubmitTaskPendente ==
    [op |-> "Agenda.insert", live |-> TRUE, res |-> [q |-> Pending],
     patient_id |-> loc.form.patient_id, date |-> loc.form.date,
     status |-> "pendente"]

\* the insert of handleSubmit (lines 796-803)
AgSubmitTask ==
    [op |-> "Agenda.insert", live |-> TRUE, res |-> [q |-> Pending],
     patient_id |-> loc.form.patient_id, date |-> loc.form.date,
     status |-> "agendado"]

\* handleSubmit up to its await (lines 782-803)
AgHandleSubmit(confirm) ==
    /\ AgShown
    /\ IF loc.form.patient_id = NoId \/ Empty(loc.form.date) \/ Empty(loc.form.time)
       THEN /\ confirm
            /\ ev' = Ev("Agenda.handleSubmit")
            /\ UNCHANGED <<shell, db, tasks, loc>>
       ELSE IF isHoliday(loc.form.date) /\ ~confirm
       THEN /\ ev' = Ev("Agenda.handleSubmit")
            /\ UNCHANGED <<shell, db, tasks, loc>>
       ELSE /\ isHoliday(loc.form.date) \/ confirm
            /\ Room
            /\ Fresh("appointments", {"Agenda.insert"})
            /\ tasks' = Add(AgSubmitTask)
            /\ ev' = Ev("Agenda.handleSubmit")
            /\ UNCHANGED <<shell, db, loc>>

\* handleSubmit after its await (lines 805-811)
AgSubmitted(t) ==
    /\ BagIn(t, tasks) /\ t.op = "Agenda.insert" /\ Served(t)
    /\ IF t.res.q.error
       THEN /\ tasks' = Take(t)
            /\ loc' = loc
            /\ ev' = [Ev(t.op) EXCEPT !.fail = TRUE, !.alert = "Erro ao agendar."]
       ELSE /\ tasks' = Replace(t, [LoadDataCall EXCEPT !.live = t.live])
            /\ SetState(t, [loc EXCEPT !.form = EmptyAgendaForm,
                                       !.loading = TRUE])
            /\ ev' = Ev(t.op)
    /\ UNCHANGED <<shell, db>>

\* updateStatus up to its await (lines 814-818), from the three buttons of a
\* row (lines 936-944)
AgUpdateStatus(i, status) ==
    /\ AgShown
    /\ i \in AgRows
    /\ Room
    /\ tasks' = Add([op |-> "Agenda.update", live |-> TRUE,
                     res |-> [q |-> Pending],
                     id |-> loc.appointments[i].id, status |-> status])
    /\ ev' = Ev("Agenda.updateStatus")
    /\ UNCHANGED <<shell, db, loc>>

\* updateStatus that forgets its loadData()
AgStatusUpdatedNoReload(t) ==
    /\ BagIn(t, tasks) /\ t.op = "Agenda.update" /\ Served(t)
    /\ tasks' = Take(t)
    /\ loc' = loc
    /\ ev' = [Ev(t.op) EXCEPT
                !.fail = t.res.q.error,
                !.alert = IF t.res.q.error THEN "Erro ao atualizar status."
                          ELSE ""]
    /\ UNCHANGED <<shell, db>>

\* updateStatus after its await (lines 819-824)
AgStatusUpdated(t) ==
    /\ BagIn(t, tasks) /\ t.op = "Agenda.update" /\ Served(t)
    /\ IF t.res.q.error
       THEN /\ tasks' = Take(t)
            /\ loc' = loc
            /\ ev' = [Ev(t.op) EXCEPT !.fail = TRUE,
                                      !.alert = "Erro ao atualizar status."]
       ELSE /\ tasks' = Replace(t, [LoadDataCall EXCEPT !.live = t.live])
            /\ SetState(t, [loc EXCEPT !.loading = TRUE])
            /\ ev' = Ev(t.op)
    /\ UNCHANGED <<shell, db>>

\* a list replaced by (data || []) whether or not its query failed
LoadedAlways(r, old) == r.data

\* a list of loadData is replaced when its query has no error and has data
\* (lines 754-762)
Loaded(r, old) == IF ~r.error THEN r.data ELSE old

\* loadData after Promise.all (lines 754-764)
AgLoaded(t) ==
    /\ BagIn(t, tasks) /\ t.op = "loadData" /\ Served(t)
    /\ tasks' = Take(t)
    /\ SetState(t, [loc EXCEPT
                      !.patients = Loaded(t.res.pats, @),
                      !.appointments = Loaded(t.res.apps, @),
                      !.holidays = Loaded(t.res.hols, @),
                      !.loading = FALSE])
    /\ ev' = [Ev(t.op) EXCEPT !.fail = \E q \in DOMAIN t.res : t.res[q].error]
    /\ UNCHANGED <<shell, db>>

\* the three selects of loadData (lines 746-751): patients by name,
\* appointments by start_time, holidays by date
SelectAgenda(t, q, fail) ==
    /\ t.op = "loadData"
    /\ \E data \in CASE q = "pats" ->
                        Ordered(patients, LAMBDA a, b : TextLE(a.name, b.name))
                     [] q = "apps" ->
                        Ordered(appointments, LAMBDA a, b : TRUE)
                     [] q = "hols" ->
                        Ordered(holidays, LAMBDA a, b : TRUE) :
         Serve(t, q, Result(fail, IF fail THEN <<>> ELSE data))
    /\ ev' = DbEv(t, fail, 0)
    /\ UNCHANGED <<shell, db, loc>>

\* from("appointments").insert({patient_id, start_time, reason, status})
\* (lines 798-803); the foreign key refuses a patient_id that has no row
InsertAppointment(t, fail) ==
    /\ t.op = "Agenda.insert"
    /\ LET error == fail \/ ~ForeignKeyOk(t.patient_id)
       IN  /\ Serve(t, "q", Result(error, <<>>))
           /\ IF error THEN UNCHANGED <<appointments, seq>>
              ELSE /\ appointments' = appointments \cup
                        {InsertAppointmentRow(t.patient_id, t.date, t.status)}
                   /\ seq' = Bump("appointments")
           /\ ev' = DbEv(t, error, IF error THEN 0 ELSE 1)
    /\ UNCHANGED <<shell, loc, patients, waitlist, holidays,
                   whatsapp_templates, public_validations, others>>

\* from("appointments").update({status}).eq("id", id) (lines 815-818)
UpdateAppointment(t, fail) ==
    /\ t.op = "Agenda.update"
    /\ Serve(t, "q", Result(fail, <<>>))
    /\ appointments' = IF fail THEN appointments
                       ELSE UpdateAppointmentRows(t.id, t.status)
    /\ ev' = [DbEv(t, fail,
                    IF fail THEN 0 ELSE Cardinality(MatchId(appointments, t.id)))
              EXCEPT !.stale = ~fail /\ t.live
                               /\ StaleRow(loc.appointments, appointments, t.id)]
    /\ UNCHANGED <<shell, loc, patients, waitlist, holidays,
                   whatsapp_templates, public_validations, seq, others>>

NextAgenda ==
    \/ \E v \in 0..MaxPatients : AgHandleChange("patient_id", v)
    \/ \E v \in {""} \cup Dates : AgHandleChange("date", v)
    \/ \E v \in {""} \cup Times : AgHandleChange("time", v)
    \/ \E confirm \in BOOLEAN : AgHandleSubmit(confirm)
    \/ \E i \in 1..MaxAppointments :
         \E status \in StatusButtons :
            AgUpdateStatus(i, status)
    \/ \E t \in BagToSet(tasks) :
         \/ AgSubmitted(t)
         \/ AgStatusUpdated(t)
         \/ AgLoaded(t)
         \/ \E fail \in BOOLEAN :
              \/ \E q \in DOMAIN t.res : SelectAgenda(t, q, fail)
              \/ InsertAppointment(t, fail)
              \/ UpdateAppointment(t, fail)

-----------------------------------------------------------------------------
(* WaitlistSection (lines 956-1143) *)

WlShown == Shown = "waitlist"

EmptyWaitlistForm == [patient_name |-> <<>>, priority |-> "1"]

WlRows == IF loc.loading THEN {} ELSE DOMAIN loc.items

\* Number(form.priority) || 1 (line 1004)
PriorityOf(s) == CASE s = "1" -> 1 [] s = "2" -> 2 [] OTHER -> 1

\* handleChange (lines 987-994)
WlHandleChange(f, v) ==
    /\ WlShown
    /\ loc.form[f] # v
    /\ loc' = [loc EXCEPT !.form[f] = v]
    /\ ev' = Ev("Waitlist.handleChange")
    /\ UNCHANGED <<shell, db, tasks>>

\* handleSubmit up to its await (lines 996-1005)
WlHandleSubmit ==
    /\ WlShown
    /\ IF Falsy(Trim(loc.form.patient_name))
       THEN /\ ev' = Ev("Waitlist.handleSubmit")
            /\ UNCHANGED <<shell, db, tasks, loc>>
       ELSE /\ Room
            /\ Fresh("waitlist", {"Waitlist.insert"})
            /\ tasks' = Add([op |-> "Waitlist.insert", live |-> TRUE,
                             res |-> [q |-> Pending],
                             patient_name |-> loc.form.patient_name,
                             priority |-> PriorityOf(loc.form.priority)])
            /\ ev' = Ev("Waitlist.handleSubmit")
            /\ UNCHANGED <<shell, db, loc>>

\* handleSubmit after its await (lines 1007-1013)
WlSubmitted(t) ==
    /\ BagIn(t, tasks) /\ t.op = "Waitlist.insert" /\ Served(t)
    /\ IF t.res.q.error
       THEN /\ tasks' = Take(t)
            /\ loc' = loc
            /\ ev' = [Ev(t.op) EXCEPT !.fail = TRUE,
                                      !.alert = "Erro ao adicionar na fila."]
       ELSE /\ tasks' = Replace(t, [Call("loadList") EXCEPT !.live = t.live])
            /\ SetState(t, [loc EXCEPT !.form = EmptyWaitlistForm,
                                       !.loading = TRUE])
            /\ ev' = Ev(t.op)
    /\ UNCHANGED <<shell, db>>

\* loadList after its await (lines 974-980)
WlLoaded(t) ==
    /\ BagIn(t, tasks) /\ t.op = "loadList" /\ Served(t)
    /\ tasks' = Take(t)
    /\ SetState(t, IF t.res.q.error THEN [loc EXCEPT !.loading = FALSE]
                   ELSE [loc EXCEPT !.items = t.res.q.data, !.loading = FALSE])
    /\ ev' = [Ev(t.op) EXCEPT
                !.fail = t.res.q.error,
                !.alert = IF t.res.q.error
                          THEN "Erro ao carregar fila de espera." ELSE ""]
    /\ UNCHANGED <<shell, db>>

\* handleRemove up to its await (lines 1016-1018)
WlHandleRemove(i, confirm) ==
    /\ WlShown
    /\ i \in WlRows
    /\ IF ~confirm
       THEN /\ ev' = Ev("Waitlist.handleRemove")
            /\ UNCHANGED <<shell, db, tasks, loc>>
       ELSE /\ Room
            /\ tasks' = Add([op |-> "Waitlist.delete", live |-> TRUE,
                             res |-> [q |-> Pending], id |-> loc.items[i].id])
            /\ ev' = Ev("Waitlist.handleRemove")
            /\ UNCHANGED <<shell, db, loc>>

\* handleRemove after its await (lines 1019-1024)
WlRemoved(t) ==
    /\ BagIn(t, tasks) /\ t.op = "Waitlist.delete" /\ Served(t)
    /\ tasks' = Take(t)
    /\ SetState(t, IF t.res.q.error THEN loc
                   ELSE [loc EXCEPT !.items =
                           SelectSeq(@, LAMBDA x : x.id # t.id)])
    /\ ev' = [Ev(t.op) EXCEPT
                !.fail = t.res.q.error,
                !.alert = IF t.res.q.error THEN "Erro ao remover." ELSE ""]
    /\ UNCHANGED <<shell, db>>

\* an order by created_at alone
ByCreated(a, b) == a.id <= b.id

\* order("priority", {ascending: false}).order("created_at", {ascending: true})
ByPriority(a, b) ==
    a.priority > b.priority \/ (a.priority = b.priority /\ a.id <= b.id)

\* from("waitlist").select("*") of loadList (lines 968-972)
SelectWaitlist(t, fail) ==
    /\ t.op = "loadList"
    /\ \E data \in Ordered(waitlist, ByPriority) :
         Serve(t, "q", Result(fail, IF fail THEN <<>> ELSE data))
    /\ ev' = DbEv(t, fail, 0)
    /\ UNCHANGED <<shell, db, loc>>

\* from("waitlist").insert(...) (lines 1000-1005)
InsertWaitlist(t, fail) ==
    /\ t.op = "Waitlist.insert"
    /\ Serve(t, "q", Result(fail, <<>>))
    /\ IF fail THEN UNCHANGED <<waitlist, seq>>
       ELSE /\ waitlist' = waitlist \cup
                 {[id |-> seq.waitlist + 1, patient_name |-> t.patient_name,
                   priority |-> t.priority]}
            /\ seq' = Bump("waitlist")
    /\ ev' = DbEv(t, fail, IF fail THEN 0 ELSE 1)
    /\ UNCHANGED <<shell, loc, patients, appointments, holidays,
                   whatsapp_templates, public_validations, others>>

\* from("waitlist").delete().eq("id", id) (line 1018)
DeleteWaitlist(t, fail) ==
    /\ t.op = "Waitlist.delete"
    /\ Serve(t, "q", Result(fail, <<>>))
    /\ waitlist' = IF fail THEN waitlist ELSE {r \in waitlist : r.id # t.id}
    /\ ev' = DbEv(t, fail,
                  IF fail THEN 0 ELSE Cardinality(MatchId(waitlist, t.id)))
    /\ UNCHANGED <<shell, loc, patients, appointments, holidays,
                   whatsapp_templates, public_validations, seq, others>>

NextWaitlist ==
    \/ \E v \in TextInputs : WlHandleChange("patient_name", v)
    \/ \E v \in {"1", "2"} : WlHandleChange("priority", v)
    \/ WlHandleSubmit
    \/ \E i \in 1..MaxWaitlist : \E confirm \in BOOLEAN :
         WlHandleRemove(i, confirm)
    \/ \E t \in BagToSet(tasks) :
         \/ WlSubmitted(t)
         \/ WlLoaded(t)
         \/ WlRemoved(t)
         \/ \E fail \in BOOLEAN :
              \/ SelectWaitlist(t, fail)
              \/ InsertWaitlist(t, fail)
              \/ DeleteWaitlist(t, fail)

-----------------------------------------------------------------------------
(* HolidaysSection (lines 1146-1296) *)

HolShown == Shown = "holidays"

EmptyHolidayForm == [date |-> "", is_blocked |-> TRUE]

\* the inputs (lines 1210-1235)
HolChange(f, v) ==
    /\ HolShown
    /\ loc.form[f] # v
    /\ loc' = [loc EXCEPT !.form[f] = v]
    /\ ev' = Ev("Holidays.onChange")
    /\ UNCHANGED <<shell, db, tasks>>

\* handleSubmit up to its await (lines 1171-1178)
HolHandleSubmit ==
    /\ HolShown
    /\ IF Empty(loc.form.date)
       THEN /\ ev' = Ev("Holidays.handleSubmit")
            /\ UNCHANGED <<shell, db, tasks, loc>>
       ELSE /\ Room
            /\ Fresh("holidays", {"Holidays.insert"})
            /\ tasks' = Add([op |-> "Holidays.insert", live |-> TRUE,
                             res |-> [q |-> Pending], date |-> loc.form.date,
                             is_blocked |-> loc.form.is_blocked])
            /\ ev' = Ev("Holidays.handleSubmit")
            /\ UNCHANGED <<shell, db, loc>>

\* handleSubmit after its await (lines 1179-1185)
HolSubmitted(t) ==
    /\ BagIn(t, tasks) /\ t.op = "Holidays.insert" /\ Served(t)
    /\ IF t.res.q.error
       THEN /\ tasks' = Take(t)
            /\ loc' = loc
            /\ ev' = [Ev(t.op) EXCEPT !.fail = TRUE,
                                      !.alert = "Erro ao salvar feriado."]
       ELSE /\ tasks' = Replace(t, [Call("Holidays.load") EXCEPT
                                       !.live = t.live])
            /\ SetState(t, [loc EXCEPT !.form = EmptyHolidayForm])
            /\ ev' = Ev(t.op)
    /\ UNCHANGED <<shell, db>>

\* load after its await (lines 1159-1164)
HolLoaded(t) ==
    /\ BagIn(t, tasks) /\ t.op = "Holidays.load" /\ Served(t)
    /\ tasks' = Take(t)
    /\ SetState(t, IF t.res.q.error THEN loc
                   ELSE [loc EXCEPT !.holidays = t.res.q.data])
    /\ ev' = [Ev(t.op) EXCEPT
                !.fail = t.res.q.error,
                !.alert = IF t.res.q.error THEN "Erro ao carregar feriados."
                          ELSE ""]
    /\ UNCHANGED <<shell, db>>

\* handleDelete up to its await (lines 1188-1190)
HolHandleDelete(i, confirm) ==
    /\ HolShown
    /\ i \in DOMAIN loc.holidays
    /\ IF ~confirm
       THEN /\ ev' = Ev("Holidays.handleDelete")
            /\ UNCHANGED <<shell, db, tasks, loc>>
       ELSE /\ Room
            /\ tasks' = Add([op |-> "Holidays.delete", live |-> TRUE,
                             res |-> [q |-> Pending],
                             id |-> loc.holidays[i].id])
            /\ ev' = Ev("Holidays.handleDelete")
            /\ UNCHANGED <<shell, db, loc>>

\* handleDelete that filters the list without looking at the error
HolDeletedAlways(t) ==
    /\ BagIn(t, tasks) /\ t.op = "Holidays.delete" /\ Served(t)
    /\ tasks' = Take(t)
    /\ SetState(t, [loc EXCEPT !.holidays =
                           SelectSeq(@, LAMBDA h : h.id # t.id)])
    /\ ev' = [Ev(t.op) EXCEPT
                !.fail = t.res.q.error,
                !.alert = IF t.res.q.error THEN "Erro ao remover." ELSE ""]
    /\ UNCHANGED <<shell, db>>

\* handleDelete after its await (lines 1191-1196)
HolDeleted(t) ==
    /\ BagIn(t, tasks) /\ t.op = "Holidays.delete" /\ Served(t)
    /\ tasks' = Take(t)
    /\ SetState(t, IF t.res.q.error THEN loc
                   ELSE [loc EXCEPT !.holidays =
                           SelectSeq(@, LAMBDA h : h.id # t.id)])
    /\ ev' = [Ev(t.op) EXCEPT
                !.fail = t.res.q.error,
                !.alert = IF t.res.q.error THEN "Erro ao remover." ELSE ""]
    /\ UNCHANGED <<shell, db>>

\* from("holidays").select("*").order("date") (lines 1155-1158)
SelectHolidays(t, fail) ==
    /\ t.op = "Holidays.load"
    /\ \E data \in Ordered(holidays, LAMBDA a, b : TRUE) :
         Serve(t, "q", Result(fail, IF fail THEN <<>> ELSE data))
    /\ ev' = DbEv(t, fail, 0)
    /\ UNCHANGED <<shell, db, loc>>

\* from("holidays").insert(...) (lines 1174-1178)
InsertHoliday(t, fail) ==
    /\ t.op = "Holidays.insert"
    /\ Serve(t, "q", Result(fail, <<>>))
    /\ IF fail THEN UNCHANGED <<holidays, seq>>
       ELSE /\ holidays' = holidays \cup
                 {[id |-> seq.holidays + 1, date |-> t.date,
                   is_blocked |-> t.is_blocked]}
            /\ seq' = Bump("holidays")
    /\ ev' = DbEv(t, fail, IF fail THEN 0 ELSE 1)
    /\ UNCHANGED <<shell, loc, patients, appointments, waitlist,
                   whatsapp_templates, public_validations, others>>

\* from("holidays").delete().eq("id", id) (line 1190)
DeleteHoliday(t, fail) ==
    /\ t.op = "Holidays.delete"
    /\ Serve(t, "q", Result(fail, <<>>))
    /\ holidays' = IF fail THEN holidays ELSE {r \in holidays : r.id # t.id}
    /\ ev' = DbEv(t, fail,
                  IF fail THEN 0 ELSE Cardinality(MatchId(holidays, t.id)))
    /\ UNCHANGED <<shell, loc, patients, appointments, waitlist,
                   whatsapp_templates, public_validations, seq, others>>

NextHolidays ==
    \/ \E v \in {""} \cup Dates : HolChange("date", v)
    \/ \E v \in BOOLEAN : HolChange("is_blocked", v)
    \/ HolHandleSubmit
    \/ \E i \in 1..MaxHolidays : \E confirm \in BOOLEAN :
         HolHandleDelete(i, confirm)
    \/ \E t \in BagToSet(tasks) :
         \/ HolSubmitted(t)
         \/ HolLoaded(t)
         \/ HolDeleted(t)
         \/ \E fail \in BOOLEAN :
              \/ SelectHolidays(t, fail)
              \/ InsertHoliday(t, fail)
              \/ DeleteHoliday(t, fail)

-----------------------------------------------------------------------------
(* WhatsappSection (lines 1299-1448) *)

WaShown == Shown = "whatsapp"

\* table whatsapp_logs (lines 60-69): no handler writes it
whatsapp_logs == {[id |-> 1, status |-> "enviado"]}

\* the inputs (lines 1358-1374)
WaChange(f, v) ==
    /\ WaShown
    /\ loc.form[f] # v
    /\ loc' = [loc EXCEPT !.form[f] = v]
    /\ ev' = Ev("Whatsapp.onChange")
    /\ UNCHANGED <<shell, db, tasks>>

\* handleSubmit up to its await (lines 1324-1330)
WaHandleSubmit ==
    /\ WaShown
    /\ IF Falsy(Trim(loc.form.name)) \/ Falsy(Trim(loc.form.content))
       THEN /\ ev' = Ev("Whatsapp.handleSubmit")
            /\ UNCHANGED <<shell, db, tasks, loc>>
       ELSE /\ Room
            /\ Fresh("whatsapp_templates", {"Whatsapp.insert"})
            /\ tasks' = Add([op |-> "Whatsapp.insert", live |-> TRUE,
                             res |-> [q |-> Pending], name |-> loc.form.name,
                             content |-> loc.form.content])
            /\ ev' = Ev("Whatsapp.handleSubmit")
            /\ UNCHANGED <<shell, db, loc>>

\* handleSubmit after its await (lines 1331-1337)
WaSubmitted(t) ==
    /\ BagIn(t, tasks) /\ t.op = "Whatsapp.insert" /\ Served(t)
    /\ IF t.res.q.error
       THEN /\ tasks' = Take(t)
            /\ loc' = loc
            /\ ev' = [Ev(t.op) EXCEPT !.fail = TRUE,
                                      !.alert = "Erro ao salvar modelo."]
       ELSE /\ tasks' = Replace(t, [WhatsLoadCall EXCEPT !.live = t.live])
            /\ SetState(t, [loc EXCEPT !.form = [name |-> <<>>,
                                                 content |-> <<>>]])
            /\ ev' = Ev(t.op)
    /\ UNCHANGED <<shell, db>>

\* load after Promise.all (lines 1316-1317)
WaLoaded(t) ==
    /\ BagIn(t, tasks) /\ t.op = "Whatsapp.load" /\ Served(t)
    /\ tasks' = Take(t)
    /\ SetState(t, [loc EXCEPT !.templates = Loaded(t.res.t, @),
                               !.logs = Loaded(t.res.l, @)])
    /\ ev' = [Ev(t.op) EXCEPT !.fail = \E q \in DOMAIN t.res : t.res[q].error]
    /\ UNCHANGED <<shell, db>>

\* the two selects of load (lines 1306-1313): templates by created_at, the
\* last logs by sent_at
SelectWhatsapp(t, q, fail) ==
    /\ t.op = "Whatsapp.load"
    /\ \E data \in CASE q = "t" ->
                        Ordered(whatsapp_templates, LAMBDA a, b : a.id <= b.id)
                     [] q = "l" ->
                        Ordered(whatsapp_logs, LAMBDA a, b : a.id >= b.id) :
         Serve(t, q, Result(fail, IF fail THEN <<>> ELSE data))
    /\ ev' = DbEv(t, fail, 0)
    /\ UNCHANGED <<shell, db, loc>>

\* from("whatsapp_templates").insert({name, content}) (lines 1327-1330)
InsertTemplate(t, fail) ==
    /\ t.op = "Whatsapp.insert"
    /\ Serve(t, "q", Result(fail, <<>>))
    /\ IF fail THEN UNCHANGED <<whatsapp_templates, seq>>
       ELSE /\ whatsapp_templates' = whatsapp_templates \cup
                 {[id |-> seq.whatsapp_templates + 1, name |-> t.name,
                   content |-> t.content]}
            /\ seq' = Bump("whatsapp_templates")
    /\ ev' = DbEv(t, fail, IF fail THEN 0 ELSE 1)
    /\ UNCHANGED <<shell, loc, patients, appointments, waitlist, holidays,
                   public_validations, others>>

NextWhatsapp ==
    \/ \E v \in TextInputs : WaChange("name", v)
    \/ \E v \in TextInputs : WaChange("content", v)
    \/ WaHandleSubmit
    \/ \E t \in BagToSet(tasks) :
         \/ WaSubmitted(t)
         \/ WaLoaded(t)
         \/ \E fail \in BOOLEAN :
              \/ \E q \in DOMAIN t.res : SelectWhatsapp(t, q, fail)
              \/ InsertTemplate(t, fail)

-----------------------------------------------------------------------------
(* ValidationSection (lines 1451-1558) *)

ValShown == Shown = "validation"

\* the input (line 1500)
ValChange(v) ==
    /\ ValShown
    /\ loc.code # v
    /\ loc' = [loc EXCEPT !.code = v]
    /\ ev' = Ev("Validation.onChange")
    /\ UNCHANGED <<shell, db, tasks>>

\* the submit button without its disabled={loading}
SearchNeverDisabled == FALSE

\* disabled={loading} of the submit button (line 1506)
SearchDisabled == loc.loading

\* handleSearch up to its await (lines 1457-1468), from the submit button
ValHandleSearch ==
    /\ ValShown
    /\ ~SearchDisabled
    /\ IF Falsy(Trim(loc.code))
       THEN /\ ev' = Ev("Validation.handleSearch")
            /\ UNCHANGED <<shell, db, tasks, loc>>
       ELSE /\ tasks' = Add([op |-> "Validation.search", live |-> TRUE,
                             res |-> [q |-> Pending], code |-> Trim(loc.code)])
            /\ loc' = [loc EXCEPT !.loading = TRUE, !.error = "",
                                  !.record = NoRecord]
            /\ ev' = Ev("Validation.handleSearch")
            /\ UNCHANGED <<shell, db>>

\* handleSearch after its await (lines 1470-1479)
ValSearched(t) ==
    /\ BagIn(t, tasks) /\ t.op = "Validation.search" /\ Served(t)
    /\ tasks' = Take(t)
    /\ SetState(t,
         IF t.res.q.error
         THEN [loc EXCEPT !.error = "Erro ao consultar validacao.",
                          !.loading = FALSE]
         ELSE IF t.res.q.data = <<>>
         THEN [loc EXCEPT !.error = "Codigo nao encontrado.",
                          !.loading = FALSE]
         ELSE [loc EXCEPT !.record = t.res.q.data[1], !.loading = FALSE])
    /\ ev' = [Ev(t.op) EXCEPT !.fail = t.res.q.error]
    /\ UNCHANGED <<shell, db>>

\* a Situacao line that does not read record.valid
SituacaoValido(record) == "Documento VALIDO"

\* the text of the Situacao line (lines 1544-1546)
Situacao(record) ==
    IF record.valid THEN "Documento VALIDO" ELSE "Documento INVALIDO/REVOGADO"

\* from("public_validations").select("*").eq("code", ...).maybeSingle()
\* (lines 1464-1468): no row is data null, one row is the row, more is an error
SelectValidation(t, fail) ==
    /\ t.op = "Validation.search"
    /\ LET rows == {r \in public_validations : r.code = t.code}
           many == Cardinality(rows) > 1
       IN  /\ \E data \in Ordered(rows, LAMBDA a, b : TRUE) :
                Serve(t, "q", Result(fail \/ many,
                                     IF fail \/ many THEN <<>> ELSE data))
           /\ ev' = DbEv(t, fail \/ many, 0)
    /\ UNCHANGED <<shell, db, loc>>

NextValidation ==
    \/ \E v \in CodeInputs : ValChange(v)
    \/ ValHandleSearch
    \/ \E t \in BagToSet(tasks) :
         \/ ValSearched(t)
         \/ \E fail \in BOOLEAN : SelectValidation(t, fail)

-----------------------------------------------------------------------------
(* ChatSection (lines 1561-1708) *)

ChatShown == Shown = "chat"

\* the input (line 1682)
ChatChange(v) ==
    /\ ChatShown
    /\ loc.input # v
    /\ loc' = [loc EXCEPT !.input = v]
    /\ ev' = Ev("Chat.onChange")
    /\ UNCHANGED <<shell, db, tasks>>

\* a payload with the system prompt and the new message only
ChatPayloadLast(newMessages) ==
    <<[role |-> "system", content |-> CLINIC_KB],
      newMessages[Len(newMessages)]>>

\* messages of the payload (lines 1591-1597)
ChatPayload(newMessages) ==
    <<[role |-> "system", content |-> CLINIC_KB]>> \o newMessages

\* a send that does not look at the key
KeyNeverMissing == FALSE

\* if (!apiKey) (lines 1583-1584)
KeyMissing == apiKey = ""

\* handleSend up to its await (lines 1573-1606)
ChatHandleSend ==
    /\ ChatShown
    /\ IF Falsy(Trim(loc.input)) \/ loc.loading
       THEN /\ ev' = Ev("Chat.handleSend")
            /\ UNCHANGED <<shell, db, tasks, loc>>
       ELSE LET newMessages ==
                    Append(loc.messages, [role |-> "user", content |-> loc.input])
            IN  /\ Len(newMessages) <= MaxMsgs
                /\ IF KeyMissing
                   THEN /\ loc' = [loc EXCEPT
                                     !.messages = newMessages, !.input = <<>>,
                                     !.loading = FALSE,
                                     !.error = "VITE_OPENAI_API_KEY nao configurado."]
                        /\ tasks' = tasks
                   ELSE /\ loc' = [loc EXCEPT
                                     !.messages = newMessages, !.input = <<>>,
                                     !.loading = TRUE, !.error = ""]
                        /\ tasks' = Add([op |-> "Chat.fetch", live |-> TRUE,
                                         res |-> [q |-> Pending],
                                         messages |-> ChatPayload(newMessages)])
                /\ ev' = Ev("Chat.handleSend")
                /\ UNCHANGED <<shell, db>>

\* a body of an ok response that resp.json() cannot read, or that holds no
\* object (data.choices throws): line 1612 rejects or line 1614 throws
NotJson == <<"<">>

\* an answer taken from the reply as it is
AnswerOfRaw(content) == content

\* data.choices?.[0]?.message?.content || "Desculpe, ..." (lines 1613-1615)
AnswerOf(content) == IF Falsy(content) THEN NoAnswer ELSE content

\* handleSend that takes the question back when the call failed
ChatAnsweredRollback(t) ==
    /\ BagIn(t, tasks) /\ t.op = "Chat.fetch" /\ Served(t)
    /\ tasks' = Take(t)
    /\ SetState(t,
         IF t.res.q.error \/ t.res.q.data = NotJson
         THEN [loc EXCEPT
                 !.error = "Erro ao conversar com a IA. Verifique a chave de API.",
                 !.messages = SubSeq(@, 1, Len(@) - 1),
                 !.loading = FALSE]
         ELSE [loc EXCEPT
                 !.messages = Append(@, [role |-> "assistant",
                                         content |-> AnswerOf(t.res.q.data)]),
                 !.loading = FALSE])
    /\ ev' = [Ev(t.op) EXCEPT
                !.fail = t.res.q.error \/ t.res.q.data = NotJson]
    /\ UNCHANGED <<shell, db>>

\* handleSend after its awaits (lines 1608-1626)
ChatAnswered(t) ==
    /\ BagIn(t, tasks) /\ t.op = "Chat.fetch" /\ Served(t)
    /\ tasks' = Take(t)
    /\ SetState(t,
         IF t.res.q.error \/ t.res.q.data = NotJson
         THEN [loc EXCEPT
                 !.error = "Erro ao conversar com a IA. Verifique a chave de API.",
                 !.loading = FALSE]
         ELSE [loc EXCEPT
                 !.messages = Append(@, [role |-> "assistant",
                                         content |-> AnswerOf(t.res.q.data)]),
                 !.loading = FALSE])
    /\ ev' = [Ev(t.op) EXCEPT
                !.fail = t.res.q.error \/ t.res.q.data = NotJson]
    /\ UNCHANGED <<shell, db>>

\* the endpoint answers the POST (lines 1599-1612): the call rejects or its
\* status is not ok (error), or it is ok with a body that holds a content,
\* holds none, or cannot be read
ChatEndpoint(t, error, content) ==
    /\ t.op = "Chat.fetch"
    /\ Serve(t, "q", Result(error, IF error THEN <<>> ELSE content))
    /\ ev' = DbEv(t, error, 0)
    /\ UNCHANGED <<shell, db, loc>>

NextChat ==
    \/ \E v \in ChatInputs : ChatChange(v)
    \/ ChatHandleSend
    \/ \E t \in BagToSet(tasks) :
         \/ ChatAnswered(t)
         \/ \E error \in BOOLEAN : \E content \in {<<>>, <<"r">>, NotJson} :
              ChatEndpoint(t, error, content)

-----------------------------------------------------------------------------
(* MedicoSection (lines 1711-1786) *)

\* load after its await (lines 1724-1730)
MedLoaded(t) ==
    /\ BagIn(t, tasks) /\ t.op = "Medico.load" /\ Served(t)
    /\ tasks' = Take(t)
    /\ SetState(t, IF t.res.q.error THEN [loc EXCEPT !.loading = FALSE]
                   ELSE [loc EXCEPT !.appointments = t.res.q.data,
                                    !.loading = FALSE])
    /\ ev' = [Ev(t.op) EXCEPT
                !.fail = t.res.q.error,
                !.alert = IF t.res.q.error
                          THEN "Erro ao carregar agenda do medico." ELSE ""]
    /\ UNCHANGED <<shell, db>>

\* from("appointments").select(...).gte("start_time", today)
\* .lte("start_time", today + "T23:59:59Z").order("start_time")
\* (lines 1717-1723)
SelectToday(t, today, fail) ==
    /\ t.op = "Medico.load"
    /\ \E data \in Ordered({a \in appointments : a.date = today},
                           LAMBDA a, b : TRUE) :
         Serve(t, "q", Result(fail, IF fail THEN <<>> ELSE data))
    /\ ev' = DbEv(t, fail, 0)
    /\ UNCHANGED <<shell, db, loc>>

NextMedico ==
    \E t \in BagToSet(tasks) :
        \/ MedLoaded(t)
        \/ \E today \in Days : \E fail \in BOOLEAN : SelectToday(t, today, fail)

-----------------------------------------------------------------------------
(* Another user of the same application: the statements of its handlers reach
   the same database.  A table changes under a behaviour only when a section
   that behaviour visits reads it (pacientes reads appointments through the
   cascade of its delete). *)

\* PacientesSection.handleSubmit of the other user: insert (line 535)
OtherInsertPatient(name) ==
    /\ Observed("patients")
    /\ Fresh("patients", {"Pacientes.insert"})
    /\ patients' = patients \cup {InsertPatientRow(name)}
    /\ seq' = Bump("patients")
    /\ others < MaxOther /\ others' = others + 1
    /\ ev' = Ev("Other.insertPatient")
    /\ UNCHANGED <<shell, loc, tasks, appointments, waitlist, holidays,
                   whatsapp_templates, public_validations>>

\* PacientesSection.handleSubmit of the other user: update (lines 526-529)
OtherUpdatePatient(id, name) ==
    /\ Observed("patients")
    /\ patients' = UpdatePatientRows(id, name)
    /\ patients' # patients
    /\ others < MaxOther /\ others' = others + 1
    /\ ev' = Ev("Other.updatePatient")
    /\ UNCHANGED <<shell, loc, tasks, appointments, waitlist, holidays,
                   whatsapp_templates, public_validations, seq>>

\* PacientesSection.handleDelete of the other user (line 568)
OtherDeletePatient(id) ==
    /\ Observed("patients")
    /\ MatchId(patients, id) # {}
    /\ patients' = DeletePatientRows(id)
    /\ appointments' = CascadeAppointments(id)
    /\ others < MaxOther /\ others' = others + 1
    /\ ev' = Ev("Other.deletePatient")
    /\ UNCHANGED <<shell, loc, tasks, waitlist, holidays, whatsapp_templates,
                   public_validations, seq>>

\* AgendaSection.handleSubmit of the other user (lines 798-803)
OtherInsertAppointment(patient_id, date) ==
    /\ Observed("appointments")
    /\ Fresh("appointments", {"Agenda.insert"})
    /\ ForeignKeyOk(patient_id)
    /\ appointments' = appointments \cup
                          {InsertAppointmentRow(patient_id, date, "agendado")}
    /\ seq' = Bump("appointments")
    /\ others < MaxOther /\ others' = others + 1
    /\ ev' = Ev("Other.insertAppointment")
    /\ UNCHANGED <<shell, loc, tasks, patients, waitlist, holidays,
                   whatsapp_templates, public_validations>>

\* AgendaSection.updateStatus of the other user (lines 815-818)
OtherUpdateStatus(id, status) ==
    /\ Observed("appointments")
    /\ appointments' = UpdateAppointmentRows(id, status)
    /\ appointments' # appointments
    /\ others < MaxOther /\ others' = others + 1
    /\ ev' = Ev("Other.updateStatus")
    /\ UNCHANGED <<shell, loc, tasks, patients, waitlist, holidays,
                   whatsapp_templates, public_validations, seq>>

\* HolidaysSection.handleSubmit of the other user (lines 1174-1178)
OtherInsertHoliday(date, is_blocked) ==
    /\ Observed("holidays")
    /\ Fresh("holidays", {"Holidays.insert"})
    /\ holidays' = holidays \cup
           {[id |-> seq.holidays + 1, date |-> date, is_blocked |-> is_blocked]}
    /\ seq' = Bump("holidays")
    /\ others < MaxOther /\ others' = others + 1
    /\ ev' = Ev("Other.insertHoliday")
    /\ UNCHANGED <<shell, loc, tasks, patients, appointments, waitlist,
                   whatsapp_templates, public_validations>>

NextOther ==
    \/ \E name \in OtherNames : OtherInsertPatient(name)
    \/ \E id \in 1..MaxPatients : \E name \in OtherNames :
         OtherUpdatePatient(id, name)
    \/ \E id \in 1..MaxPatients : OtherDeletePatient(id)
    \/ \E id \in 1..MaxPatients : \E date \in Dates :
         OtherInsertAppointment(id, date)
    \/ \E id \in 1..MaxAppointments :
         \E status \in StatusButtons :
            OtherUpdateStatus(id, status)
    \/ \E date \in Dates : \E b \in BOOLEAN : OtherInsertHoliday(date, b)

Next ==
    \/ NextShell
    \/ NextPacientes
    \/ NextAgenda
    \/ NextWaitlist
    \/ NextHolidays
    \/ NextWhatsapp
    \/ NextValidation
    \/ NextChat
    \/ NextMedico
    \/ NextOther

Spec == Init /\ [][Next]_vars

\* the application with a backend and an endpoint that never answer with an
\* error: every query resolves with {error: null} (lines 487-491 and alike)
NextNoErrors == Next /\ ~ev'.fail

SpecNoErrors == Init /\ [][NextNoErrors]_vars

-----------------------------------------------------------------------------
(* Central de Mensagens: the message inbox of a later draft, whose file is
   not part of src/.  Its grouping of message rows into conversations is
   taken from the description of the application: rows come newest first, a
   conversation is keyed by external id + patient id, a one-pass insert into
   a map keeps the first row seen of each key, the conversations are sorted
   by recency. *)

\* the composite key of a message row: external id + patient id
ConversationKey(m) == <<m.external_id, m.patient_id>>

\* a one-pass insert that lets a later row replace the row of its key
RECURSIVE KeepLastSeen(_, _)
KeepLastSeen(rows, kept) ==
    IF rows = <<>> THEN kept
    ELSE LET m == Head(rows)
             rest == SelectSeq(kept, LAMBDA c :
                                 ConversationKey(c) # ConversationKey(m))
         IN  KeepLastSeen(Tail(rows), Append(rest, m))

\* the one-pass map insert: a row whose key is already in the map is skipped
RECURSIVE KeepFirstSeen(_, _)
KeepFirstSeen(rows, kept) ==
    IF rows = <<>> THEN kept
    ELSE LET m == Head(rows)
         IN  KeepFirstSeen(Tail(rows),
                IF \E i \in DOMAIN kept :
                       ConversationKey(kept[i]) = ConversationKey(m)
                THEN kept ELSE Append(kept, m))

\* c put into a list sorted by time descending, after the rows as recent as c
RECURSIVE InsertByRecency(_, _)
InsertByRecency(c, sorted) ==
    IF sorted = <<>> THEN <<c>>
    ELSE IF Head(sorted).time >= c.time
    THEN <<Head(sorted)>> \o InsertByRecency(c, Tail(sorted))
    ELSE <<c>> \o sorted

\* the (stable) sort of the conversations by recency
RECURSIVE SortByRecency(_)
SortByRecency(cs) ==
    IF cs = <<>> THEN <<>>
    ELSE InsertByRecency(cs[Len(cs)], SortByRecency(SubSeq(cs, 1, Len(cs) - 1)))

\* message rows grouped into conversations
GroupConversations(rows) == SortByRecency(KeepFirstSeen(rows, <<>>))

ExternalIds == {"x", "y"}

\* what a select of the message rows ordered by time descending can return:
\* up to MaxMsgRows rows, numbered as they come, with times that never grow
MessageRows ==
    LET Row  == [external_id : ExternalIds, patient_id : {NoId, 1},
                 time : 1..MaxMsgTime]
        Raw  == UNION {[1..n -> Row] : n \in 0..MaxMsgRows}
        Desc == {r \in Raw : \A i, j \in DOMAIN r : i < j => r[i].time >= r[j].time}
    IN  {[i \in DOMAIN r |->
            [id |-> i, external_id |-> r[i].external_id,
             patient_id |-> r[i].patient_id, time |-> r[i].time]] : r \in Desc}

\* the inbox as it opens: no rows yet
MensagensInit ==
    /\ visits = {"mensagens"} /\ alone = TRUE /\ apiKey = "sk"
    /\ session = [role |-> "admin", name |-> <<"e">>]
    /\ storage = Stringify(session)
    /\ section = "mensagens"
    /\ loc = [rows |-> <<>>, conversations |-> <<>>, loaded |-> FALSE]
    /\ patients = {} /\ appointments = {} /\ waitlist = {} /\ holidays = {}
    /\ whatsapp_templates = {} /\ public_validations = {}
    /\ seq = [patients |-> 0, appointments |-> 0, waitlist |-> 0,
              holidays |-> 0, whatsapp_templates |-> 0]
    /\ tasks = EmptyBag /\ others = 0
    /\ ev = Ev("App")

\* the rows of a load arrive and are grouped
MensagensLoaded(rows) ==
    /\ section = "mensagens"
    /\ loc' = [rows |-> rows, conversations |-> GroupConversations(rows),
               loaded |-> TRUE]
    /\ ev' = Ev("Mensagens.load")
    /\ UNCHANGED <<shell, db, tasks>>

NextMensagens == \E rows \in MessageRows : MensagensLoaded(rows)

MensagensSpec == MensagensInit /\ [][NextMensagens]_vars

-----------------------------------------------------------------------------
(* Properties *)

\* the requests in flight of the component shown
LiveTasks == {t \in BagToSet(tasks) : t.live}

ErrorText == IF "error" \in DOMAIN loc THEN loc.error ELSE ""

\* C2: a handler that received a failed response has shown an alert or an
\* inline error text.
C2_FailureSurfaced ==
    (ev.fail /\ ~ev.db) => (ev.alert # "" \/ ErrorText # "")

\* a text with nothing but white space
Blank(s) == \A i \in DOMAIN s : s[i] = " "

SubmitOps ==
    {"Pacientes.handleSubmit", "Agenda.handleSubmit", "Waitlist.handleSubmit",
     "Holidays.handleSubmit", "Whatsapp.handleSubmit",
     "Validation.handleSearch", "Chat.handleSend", "Login.handleSubmit"}

\* a required field of the form shown is empty
RequiredMissing ==
    CASE Shown = "pacientes" -> Blank(loc.form.name)
      [] Shown = "agenda" ->
           loc.form.patient_id = NoId \/ loc.form.date = "" \/ loc.form.time = ""
      [] Shown = "waitlist" -> Blank(loc.form.patient_name)
      [] Shown = "holidays" -> loc.form.date = ""
      [] Shown = "whatsapp" -> Blank(loc.form.name) \/ Blank(loc.form.content)
      [] Shown = "validation" -> Blank(loc.code)
      [] Shown = "chat" -> Blank(loc.input)
      [] Shown = "login" -> loc.user.email = <<>> \/ loc.user.password = <<>>
      [] OTHER -> FALSE

\* C3: a submit of a form whose required field is empty sends no request and
\* writes neither the tables nor the stored session.
C3_BlankSubmit ==
    [][(ev'.op \in SubmitOps /\ RequiredMissing)
          => /\ tasks' = tasks
             /\ UNCHANGED db
             /\ storage' = storage /\ session' = session]_vars

\* a patient form holding only white space was submitted
C3_Witness ==
    /\ Shown = "pacientes"
    /\ ev.op = "Pacientes.handleSubmit"
    /\ loc.form.name = <<" ">>
    /\ tasks = EmptyBag /\ patients = {}

\* the submits of the forms that passed the required check, as requests
FormWrites ==
    {"Pacientes.insert", "Pacientes.update", "Agenda.insert",
     "Waitlist.insert", "Holidays.insert", "Whatsapp.insert"}

\* C4: for a user working alone, the request of a form submit that the
\* backend served without an error has inserted or updated exactly one row,
\* also a patient save in edit mode after that patient was deleted.
C4_OneRow ==
    (alone /\ ev.db /\ ~ev.fail /\ ev.op \in FormWrites) => ev.rows = 1

InsertUpdateOps == FormWrites \cup {"Agenda.update"}

DeleteOps == {"Pacientes.delete", "Waitlist.delete", "Holidays.delete"}

\* the load of the section that sends the request op
LoadOf(op) ==
    CASE op \in {"Pacientes.insert", "Pacientes.update", "Pacientes.delete"} ->
           "loadPatients"
      [] op \in {"Agenda.insert", "Agenda.update"} -> "loadData"
      [] op \in {"Waitlist.insert", "Waitlist.delete"} -> "loadList"
      [] op \in {"Holidays.insert", "Holidays.delete"} -> "Holidays.load"
      [] op = "Whatsapp.insert" -> "Whatsapp.load"

\* a full reload for the section of op has just been sent
Reloading(op) ==
    \E t \in BagToSet(tasks) : t.op = LoadOf(op) /\ Unserved(t) = DOMAIN t.res

\* C5 as stated: the handler of a successful insert, update or delete sends a
\* full reload of its section's list when it resumes.
C5_ReloadAfterWrite ==
    (~ev.db /\ ~ev.fail /\ ev.op \in InsertUpdateOps \cup DeleteOps)
        => Reloading(ev.op)

\* C5 amended: the handler of a successful insert or update sends a full
\* reload of its section's list when it resumes; the handler of a successful
\* delete removes the row from its list and sends no reload.
C5_ReloadAfterInsertUpdate ==
    /\ []((~ev.db /\ ~ev.fail /\ ev.op \in InsertUpdateOps)
             => Reloading(ev.op))
    /\ [][(~ev'.db /\ ev'.op \in DeleteOps)
             => \A t \in BagToSet(tasks') :
                   CopiesIn(t, tasks') <= CopiesIn(t, tasks)]_vars

\* updateStatus succeeded and the agenda is loading again
C5_Witness ==
    /\ Shown = "agenda"
    /\ ev.op = "Agenda.update" /\ ~ev.db /\ ~ev.fail
    /\ loc.loading
    /\ \E a \in appointments : a.status = "confirmado"

\* C6: the request that handleSend sends carries the system prompt, then the
\* messages of the conversation so far in order, then the message just typed.
C6_Payload ==
    [][\A t \in BagToSet(tasks') :
          (/\ t.op = "Chat.fetch" /\ ev'.op = "Chat.handleSend"
           /\ CopiesIn(t, tasks') > CopiesIn(t, tasks))
             => t.messages =
                  <<[role |-> "system", content |-> CLINIC_KB]>>
                  \o loc.messages
                  \o <<[role |-> "user", content |-> loc.input]>>]_vars

\* a second question is in flight, after the greeting, a question and its answer
C6_Witness ==
    \E t \in LiveTasks :
        /\ t.op = "Chat.fetch"
        /\ Len(t.messages) = 5
        /\ t.messages[2].content = Greeting
        /\ t.messages[4].role = "assistant"

UpdateOps == {"Pacientes.update", "Agenda.update"}

\* C7: an update that the database serves without an error leaves the row
\* with the value of that update, whatever another client wrote to it since
\* the sender loaded it, and its handler shows no alert.
C7_LastWriteWins ==
    /\ [][\A t \in BagToSet(tasks) :
             (/\ t.op \in UpdateOps /\ Unserved(t) # {}
              /\ ev'.db /\ ev'.op = t.op /\ ~ev'.fail
              /\ CopiesIn(t, tasks') < CopiesIn(t, tasks))
                => IF t.op = "Pacientes.update"
                   THEN \A r \in MatchId(patients', t.id) : r.name = t.name
                   ELSE \A r \in MatchId(appointments', t.id) :
                            r.status = t.status]_vars
    /\ []((ev.op \in UpdateOps /\ ~ev.fail) => ev.alert = "")

\* a patient update wrote over the name another user gave the row after the
\* sender had loaded it
C7_Witness ==
    /\ ev.op = "Pacientes.update" /\ ev.db /\ ev.stale /\ ev.rows = 1
    /\ others = 1
    /\ \E p \in patients : p.name = <<"a">>

\* the requests of op that are waiting for the backend
Waiting(op, b) ==
    BagCardinality([t \in {u \in BagToSet(b) : u.op = op /\ Unserved(u) # {}}
                      |-> CopiesIn(t, b)])

\* C8: a request is sent only by a user action, a mount, or the handler of
\* another request resuming; no step that serves or returns a request, failed
\* or not, sends that request again.
C8_NoRetry ==
    [][\A t \in BagToSet(tasks') :
          Waiting(t.op, tasks') > Waiting(t.op, tasks)
             => (~ev'.db /\ ev'.op # t.op)]_vars

\* loadPatients failed, the alert was shown, and nothing is in flight
C8_Witness ==
    /\ Shown = "pacientes"
    /\ ev.op = "loadPatients" /\ ~ev.db /\ ev.fail
    /\ tasks = EmptyBag

\* C9: every appointment in the table references a patient in the table.
C9_AppointmentHasPatient ==
    \A a \in appointments : \E p \in patients : p.id = a.patient_id

\* an appointment for a patient still in the agenda's list was refused,
\* another user having deleted the patient
C9_Witness ==
    /\ Shown = "agenda"
    /\ ev.op = "Agenda.insert" /\ ev.db /\ ev.fail
    /\ \E t \in LiveTasks :
         /\ t.op = "Agenda.insert"
         /\ \A p \in patients : p.id # t.patient_id
         /\ \E i \in DOMAIN loc.patients : loc.patients[i].id = t.patient_id

\* u is s without the white space at its ends
IsTrimOf(u, s) ==
    /\ u = <<>> \/ (u[1] # " " /\ u[Len(u)] # " ")
    /\ \E i \in 0..Len(s) : \E j \in i..Len(s) :
         /\ u = SubSeq(s, i + 1, j)
         /\ Blank(SubSeq(s, 1, i)) /\ Blank(SubSeq(s, j + 1, Len(s)))

\* what the validation screen shows under the form
Display == IF loc.record # NoRecord THEN Situacao(loc.record) ELSE loc.error

\* C10: a search for a code that is not blank asks for the rows whose code is
\* the trimmed input, and when the query returns without an error the screen
\* shows VALIDO iff a row has the code and is valid, INVALIDO/REVOGADO iff a row
\* has the code and is not valid, and "Codigo nao encontrado." iff no row has it.
C10_Search ==
    /\ [][(ev'.op = "Validation.handleSearch" /\ ~Blank(loc.code))
             => \E t \in BagToSet(tasks') :
                   /\ t.op = "Validation.search" /\ Unserved(t) # {}
                   /\ IsTrimOf(t.code, loc.code)]_vars
    /\ [][\A t \in BagToSet(tasks) :
             (/\ t.op = "Validation.search" /\ t.live
              /\ Served(t) /\ ~t.res.q.error
              /\ ev'.op = t.op /\ ~ev'.db
              /\ CopiesIn(t, tasks') < CopiesIn(t, tasks))
                => LET rows == {r \in public_validations : r.code = t.code}
                   IN  /\ Display' = "Documento VALIDO"
                            <=> \E r \in rows : r.valid
                       /\ Display' = "Documento INVALIDO/REVOGADO"
                            <=> \E r \in rows : ~r.valid
                       /\ Display' = "Codigo nao encontrado."
                            <=> rows = {}]_vars

\* a code typed with spaces around it was found, revoked
C10_Witness ==
    /\ Shown = "validation"
    /\ ev.op = "Validation.search" /\ ~ev.db /\ ~ev.fail
    /\ loc.code = <<" ", "a", " ">>
    /\ loc.record # NoRecord /\ ~loc.record.valid

\* C11: a successful login with role r and e-mail n stores the session
\* {role: r, name: n}, nothing but a login changes what is stored, and a start
\* of the application with that session stored restores it and shows the
\* dashboard.
C11_SessionRestored ==
    /\ [][(/\ ev'.op = "Login.handleSubmit"
           /\ loc.user.email # <<>> /\ loc.user.password # <<>>)
             => storage' = Stringify([role |-> loc.user.role,
                                      name |-> loc.user.email])]_vars
    /\ [][storage' # storage => ev'.op = "Login.handleSubmit"]_vars
    /\ [][\A r \in Roles : \A n \in {<<"e">>, <<"f">>} :
             (ev'.op = "App.restart"
              /\ storage = Stringify([role |-> r, name |-> n]))
                => /\ session' = [role |-> r, name |-> n]
                   /\ Shown' = "dashboard"
                   /\ "counts" \in DOMAIN loc']_vars

\* the application was started again after f logged in as medico
C11_Witness ==
    /\ ev.op = "App.restart"
    /\ session = [role |-> "medico", name |-> <<"f">>]
    /\ Shown = "dashboard" /\ "counts" \in DOMAIN loc

\* C12: the items displayed in the waitlist section are always in order of
\* priority descending and, within one priority, of creation ascending (ids
\* are given in order of creation), after a load and after a local removal.
C12_WaitlistOrdered ==
    WlShown =>
        \A i, j \in DOMAIN loc.items :
            i < j => \/ loc.items[i].priority > loc.items[j].priority
                     \/ /\ loc.items[i].priority = loc.items[j].priority
                        /\ loc.items[i].id < loc.items[j].id

\* a load has put the row created later, of higher priority, first
C12_Witness ==
    /\ WlShown /\ ev.op = "loadList" /\ ~ev.db /\ ~ev.fail
    /\ Len(loc.items) = 2
    /\ loc.items[1].id > loc.items[2].id
    /\ loc.items[1].priority > loc.items[2].priority

\* C13: every status written to an appointment is one of agendado,
\* confirmado, cancelado, concluido: the insert of a new appointment always
\* carries agendado, a row that appears in the table has status agendado, and
\* updateStatus is only called with confirmado, cancelado or concluido.
C13_StatusWritten ==
    /\ [](/\ \A r \in appointments : r.status \in Statuses
          /\ \A t \in BagToSet(tasks) :
               /\ t.op = "Agenda.insert" => t.status = "agendado"
               /\ t.op = "Agenda.update"
                    => t.status \in {"confirmado", "cancelado", "concluido"})
    /\ [][\A r \in appointments' :
             (\A q \in appointments : q.id # r.id) => r.status = "agendado"]_vars
    /\ [][\A r \in appointments' : \A q \in appointments :
             (q.id = r.id /\ q.status # r.status)
                => r.status \in {"confirmado", "cancelado", "concluido"}]_vars

\* the appointment made in this behaviour by the form has been concluded by
\* a button
C13_Witness ==
    /\ ev.op = "Agenda.update" /\ ev.db /\ ~ev.fail /\ ev.rows = 1
    /\ "agenda" \in visits /\ others = 0
    /\ \E r \in appointments : r.status = "concluido"

\* C14: the conversations of the inbox hold exactly one row per key
\* (external id + patient id) of the rows loaded, that row is the first one
\* seen for its key in the rows as they came, newest first (so no row of the
\* key is more recent), and the conversations are in order of recency.
C14_Conversations ==
    loc.loaded =>
        LET rows == loc.rows
            cs   == loc.conversations
        IN  /\ \A i \in DOMAIN rows :
                 Cardinality({j \in DOMAIN cs :
                    ConversationKey(cs[j]) = ConversationKey(rows[i])}) = 1
            /\ \A j \in DOMAIN cs :
                 \E i \in DOMAIN rows :
                    /\ cs[j] = rows[i]
                    /\ \A k \in DOMAIN rows :
                         ConversationKey(rows[k]) = ConversationKey(rows[i])
                            => k >= i /\ rows[k].time <= rows[i].time
            /\ \A i, j \in DOMAIN cs : i < j => cs[i].time >= cs[j].time

\* three rows, the first and the last of one conversation, another between
C14_Witness ==
    /\ loc.loaded /\ Len(loc.rows) = 3 /\ Len(loc.conversations) = 2
    /\ ConversationKey(loc.rows[1]) = ConversationKey(loc.rows[3])
    /\ loc.rows[1].time > loc.rows[3].time
    /\ loc.conversations = <<loc.rows[1], loc.rows[2]>>

\* C15: with no API key configured, a send of the chat (text typed, no send
\* in progress) makes no HTTP request, shows the text 'VITE_OPENAI_API_KEY
\* nao configurado.' and leaves loading false, so that a later send is
\* accepted; no request to the endpoint is ever waiting.
C15_NoKeyNoRequest ==
    /\ [](apiKey = "" =>
            /\ \A t \in BagToSet(tasks) : t.op # "Chat.fetch"
            /\ ChatShown => ~loc.loading)
    /\ [][(/\ ev'.op = "Chat.handleSend" /\ ChatShown /\ apiKey = ""
           /\ ~Falsy(Trim(loc.input)) /\ ~loc.loading)
             => /\ tasks' = tasks
                /\ loc'.error = "VITE_OPENAI_API_KEY nao configurado."
                /\ ~loc'.loading
                /\ loc'.messages =
                     Append(loc.messages, [role |-> "user", content |-> loc.input])]_vars

\* without a key, a second send has been accepted after the first
C15_Witness ==
    /\ apiKey = "" /\ ChatShown /\ ev.op = "Chat.handleSend"
    /\ Cardinality({i \in DOMAIN loc.messages : loc.messages[i].role = "user"}) = 2
    /\ loc.error = "VITE_OPENAI_API_KEY nao configurado."
    /\ ~loc.loading /\ tasks = EmptyBag

\* C16: after 'Sair / Trocar usuario' (the sidebar's onChange("login") with a
\* session) the login screen stays displayed until a login submit succeeds:
\* only Login.handleSubmit leads from it to another section.
C16_SairUntilLogin ==
    [][(session # NoSession /\ section = "login" /\ Shown' # "login")
          => ev'.op = "Login.handleSubmit"]_vars

\* C17: the login form is what is mounted exactly when the session is null or
\* the section is 'login', otherwise the component of the section is; the
\* sidebar is there (its buttons are clicked) only with a session; while the
\* session is null no handler of a data section is waiting with its
\* component mounted.  This covers the start with nothing stored and with a
\* stored text that is not JSON.
C17_RenderGate ==
    /\ []((("user" \in DOMAIN loc) <=> (session = NoSession \/ section = "login"))
          /\ (session # NoSession /\ section # "login"
                => DOMAIN loc = DOMAIN LocalInit(section))
          /\ (session = NoSession => \A t \in BagToSet(tasks) : ~t.live))
    /\ [][ev'.op = "Sidebar.onChange" => session # NoSession]_vars

\* started with a stored text that is not JSON: the section is still
\* 'dashboard', the session is null, and the user types into the login form
C17_Witness ==
    /\ storage = Garbage /\ session = NoSession /\ section = "dashboard"
    /\ ev.op = "Login.onChange" /\ loc.user.email = <<"e">>

\* C18: the role of the session does not affect what can be reached.  In
\* every state, the session with its role replaced by any other role is
\* offered the same sidebar items and is shown the same section; a sidebar
\* click leaves the session as it is and shows the item clicked, which is one
\* offered to every role; a login ends on the dashboard whatever the role.
\* Two runs that differ only in the role and take the same clicks therefore
\* stay in step.
C18_RoleBlind ==
    /\ [](\A r \in Roles :
            LET twin == IF session = NoSession THEN NoSession
                        ELSE [session EXCEPT !.role = r]
            IN  /\ Offered(twin) = Offered(session)
                /\ ShownTo(twin, section) = Shown
                /\ DOMAIN loc = DOMAIN LocalInit(ShownTo(twin, section)))
    /\ [][ev'.op = "Sidebar.onChange"
            => /\ session' = session
               /\ \A r \in Roles :
                    section' \in Offered([session EXCEPT !.role = r]) \cup {"login"}
               /\ Shown' = section']_vars
    /\ [][(ev'.op = "Login.handleSubmit" /\ session' # session)
            => Shown' = "dashboard" /\ session'.name = loc.user.email]_vars

\* a receptionist has clicked Configuracoes and sees it
C18_Witness ==
    /\ session # NoSession /\ session.role = "recepcao"
    /\ ev.op = "Sidebar.onChange" /\ Shown = "config"
    /\ DOMAIN loc = DOMAIN LocalInit("config")

\* C19: appointments have no lifecycle.  Whatever the status of the row, each
\* of the three buttons is there for every row displayed and sends its
\* update, and an update the database accepts gives the row the status sent,
\* so no status is terminal; and no step changes the status of an existing
\* appointment to agendado.
C19_NoLifecycle ==
    /\ []((AgShown /\ ~loc.loading /\ Room)
            => \A i \in DOMAIN loc.appointments :
                 \A status \in {"confirmado", "cancelado", "concluido"} :
                    ENABLED AgUpdateStatus(i, status))
    /\ [][\A t \in BagToSet(tasks) :
             (/\ t.op = "Agenda.update" /\ Unserved(t) # {}
              /\ ev'.db /\ ev'.op = t.op /\ ~ev'.fail
              /\ CopiesIn(t, tasks') < CopiesIn(t, tasks))
                => \A r \in MatchId(appointments, t.id) :
                      [r EXCEPT !.status = t.status] \in appointments']_vars
    /\ [][\A r \in appointments' : \A q \in appointments :
             (q.id = r.id /\ q.status # r.status) => r.status # "agendado"]_vars

\* the appointment shown as concluido has been set to confirmado by a button
C19_Witness ==
    /\ "agenda" \in visits /\ others = 0
    /\ ev.op = "Agenda.update" /\ ev.db /\ ~ev.fail /\ ev.rows = 1
    /\ \E i \in DOMAIN loc.appointments :
         /\ loc.appointments[i].status = "concluido"
         /\ \E r \in appointments :
              r.id = loc.appointments[i].id /\ r.status = "confirmado"

\* C20: when the backend returns an error for the submit of a form
\* (Pacientes, Agenda, Waitlist, Holidays, WhatsApp templates), the handler
\* that resumes leaves the fields of the form and the edit mode as they are.
C20_FormKeptOnError ==
    [][\A t \in BagToSet(tasks) :
          (/\ t.op \in FormWrites /\ Served(t) /\ t.res.q.error /\ t.live
           /\ ev'.op = t.op /\ ~ev'.db
           /\ CopiesIn(t, tasks') < CopiesIn(t, tasks))
             => /\ loc'.form = loc.form
                /\ "editingId" \in DOMAIN loc
                     => loc'.editingId = loc.editingId]_vars

\* C21: for a user working alone with a backend that never fails, whenever
\* the section shown has no request outstanding, the list it displays holds
\* exactly the rows its table has now, whatever the order in which submits,
\* deletes and the responses of the loads came.
C21_ListIsTable ==
    (alone /\ others = 0 /\ tasks = EmptyBag) =>
        CASE Shown = "pacientes" ->
               Range(loc.patients) = patients
               /\ Len(loc.patients) = Cardinality(patients)
          [] Shown = "waitlist" ->
               Range(loc.items) = waitlist
               /\ Len(loc.items) = Cardinality(waitlist)
          [] Shown = "holidays" ->
               Range(loc.holidays) = holidays
               /\ Len(loc.holidays) = Cardinality(holidays)
          [] Shown = "whatsapp" ->
               Range(loc.templates) = whatsapp_templates
               /\ Len(loc.templates) = Cardinality(whatsapp_templates)
          [] OTHER -> TRUE

\* the list of the section that a delete request belongs to
ListOf(op, l) ==
    CASE op = "Pacientes.delete" -> l.patients
      [] op = "Waitlist.delete" -> l.items
      [] op = "Holidays.delete" -> l.holidays

\* new is old without its items of this id, the others in their order
IsListWithout(new, old, id) ==
    \E f \in [DOMAIN new -> DOMAIN old] :
        /\ \A i, j \in DOMAIN new : i < j => f[i] < f[j]
        /\ \A i \in DOMAIN new : new[i] = old[f[i]]
        /\ {f[i] : i \in DOMAIN new} = {k \in DOMAIN old : old[k].id # id}

DeleteHandlers ==
    {"Pacientes.handleDelete", "Waitlist.handleRemove", "Holidays.handleDelete"}

C24_HistoryKept ==
    /\ [][\A t \in BagToSet(tasks) :
             (/\ t.op = "Chat.fetch" /\ Served(t) /\ t.live
              /\ ev'.op = t.op /\ ~ev'.db /\ ev'.fail
              /\ CopiesIn(t, tasks') < CopiesIn(t, tasks))
                => /\ loc'.messages = loc.messages
                   /\ loc'.messages[Len(loc'.messages)] = t.messages[Len(t.messages)]
                   /\ t.messages[Len(t.messages)].role = "user"]_vars
    /\ []((ChatShown
           /\ loc.error = "Erro ao conversar com a IA. Verifique a chave de API.")
             => loc.messages[Len(loc.messages)].role = "user")
    /\ [][\A t \in BagToSet(tasks') :
             (/\ t.op = "Chat.fetch" /\ ev'.op = "Chat.handleSend"
              /\ CopiesIn(t, tasks') > CopiesIn(t, tasks)
              /\ loc.error = "Erro ao conversar com a IA. Verifique a chave de API.")
                => LET n == Len(t.messages)
                   IN  /\ t.messages[n] = [role |-> "user", content |-> loc.input]
                       /\ t.messages[n - 1] = loc.messages[Len(loc.messages)]
                       /\ t.messages[n - 1].role = "user"
                       /\ SubSeq(t.messages, 2, n - 1) = loc.messages]_vars

\* the request sent after a failed one: two user messages in a row at its end
C24_Witness ==
    /\ ChatShown /\ ev.op = "Chat.handleSend"
    /\ \E t \in LiveTasks :
         /\ t.op = "Chat.fetch" /\ Unserved(t) # {}
         /\ Len(t.messages) = 4
         /\ t.messages[3].role = "user" /\ t.messages[4].role = "user"

\* C25: when loadData of the agenda returns, each of the three lists
\* (patients, appointments, holidays) is replaced by the rows of its own
\* query if and only if that query succeeded, a list whose query failed keeps
\* its value, nothing else of the section changes, and loading is false
\* whatever the three outcomes are.
C25_LoadDataLists ==
    [][\A t \in BagToSet(tasks) :
          (/\ t.op = "loadData" /\ Served(t) /\ t.live
           /\ ev'.op = t.op /\ ~ev'.db
           /\ CopiesIn(t, tasks') < CopiesIn(t, tasks))
             => /\ ~loc'.loading
                /\ loc'.form = loc.form
                /\ IF t.res.pats.error THEN loc'.patients = loc.patients
                   ELSE loc'.patients = t.res.pats.data
                /\ IF t.res.apps.error THEN loc'.appointments = loc.appointments
                   ELSE loc'.appointments = t.res.apps.data
                /\ IF t.res.hols.error THEN loc'.holidays = loc.holidays
                   ELSE loc'.holidays = t.res.hols.data]_vars

\* a loadData whose query on patients failed and whose query on appointments
\* succeeded: the appointments are listed, the patients are not
C25_Witness ==
    /\ AgShown /\ ev.op = "loadData" /\ ~ev.db /\ ev.fail
    /\ ~loc.loading
    /\ loc.patients = <<>> /\ loc.appointments # <<>>

====
